---- MODULE Spec2Model ----
(***************************************************************************)
(* Model of the marketing_automation backend: the POST /api/image-flow     *)
(* orchestrator (routes/imageFlow.ts), the image synthesis client with its *)
(* fal.ai fallback (services/geminiService.ts, services/falImageService.ts)*)
(* and the Express error handler (middlewares/errorHandler.ts).            *)
(*                                                                         *)
(* Text is modelled as a sequence of fragments.  Text that the code        *)
(* inspects (model replies, user instructions, error details) is a         *)
(* sequence of one-character strings; text that the code only builds from  *)
(* a literal appears as one multi-character fragment.                      *)
(***************************************************************************)
EXTENDS Integers, Sequences, FiniteSets, TLC

VARIABLES
  cfg,            \* config: which credentials the environment holds
  req,            \* the multipart request being served
  pc,             \* where the route handler is suspended
  response,       \* the HTTP response sent (status 0: none yet)
  calls,          \* calls made to the blob store and the model providers, in order
  store,          \* objects written to the blob store
  nextId,         \* source of fresh ids (crypto.randomUUID)
  baseUpload,     \* handler local baseImageUpload
  refUploads,     \* handler local referenceUploads, one entry per reference image
  prompt1,        \* handler local prompt1
  prompt2,        \* handler local prompt2
  step2Executed,  \* handler local step2Executed
  genPc,          \* where GeminiService.generateImage is suspended
  genArgs,        \* its prompt and resolved options
  genCaught,      \* the error its catch block caught from the primary
  genOutcome,     \* what it returned or threw
  storageUploads,        \* StorageService.uploadBuffer calls of concurrent callers, in call order
  proxyPc,        \* where the image-proxy handler is suspended
  proxyReq,       \* the query of the GET /api/image-proxy request being served
  proxyFetch,     \* the upstream URL the proxy fetched (none: <<>>)
  proxyResponse,  \* the response of the image proxy (status 0: none yet)
  aiCall,         \* the last OpenAIService call made on its own: method, reply, outcome
  abortedAt,      \* number of calls made when the client's connection closed (-1: open)
  isLoading,      \* useImageFlow state isLoading
  progressLabel,  \* useImageFlow state progressLabel
  flowError,      \* useImageFlow state error
  flowResult,     \* useImageFlow state result
  runs,           \* the runFlow calls made, in call order
  history,        \* useImageHistory state history
  persisted,      \* localStorage entry 'image-flow-history' (Null: no entry)
  nextItemId      \* the clock: Date.now() of the next call, also its item's id

\* ------------------------------------------------------------------------
\* JavaScript values
\* ------------------------------------------------------------------------
Undef == [k |-> "undefined"]
Null == [k |-> "null"]
Str(s) == [k |-> "string", s |-> s]
Num(n) == [k |-> "number", n |-> n]
Bool(b) == [k |-> "boolean", b |-> b]

IsStr(v) == v.k = "string"
\* x ?? d
Coalesce(v, d) == IF v = Undef \/ v = Null THEN d ELSE v
\* JavaScript truthiness of a string, number, boolean, null or undefined
Truthy(v) ==
  CASE v.k = "string" -> v.s # <<>>
    [] v.k = "number" -> v.n # 0
    [] v.k = "boolean" -> v.b
    [] OTHER -> FALSE

\* ------------------------------------------------------------------------
\* String primitives (String.prototype.trim / toLowerCase / toUpperCase /
\* includes), computed character by character
\* ------------------------------------------------------------------------
UpperChars == <<"A","B","C","D","E","F","G","H","I","J","K","L","M",
                "N","O","P","Q","R","S","T","U","V","W","X","Y","Z">>
LowerChars == <<"a","b","c","d","e","f","g","h","i","j","k","l","m",
                "n","o","p","q","r","s","t","u","v","w","x","y","z">>

LowerChar(c) ==
  IF \E i \in 1..26 : UpperChars[i] = c
  THEN LowerChars[CHOOSE i \in 1..26 : UpperChars[i] = c]
  ELSE c
UpperChar(c) ==
  IF \E i \in 1..26 : LowerChars[i] = c
  THEN UpperChars[CHOOSE i \in 1..26 : LowerChars[i] = c]
  ELSE c
ToLowerCase(s) == [i \in 1..Len(s) |-> LowerChar(s[i])]
ToUpperCase(s) == [i \in 1..Len(s) |-> UpperChar(s[i])]

IsWhitespace(c) == c \in {" ", "\t", "\n", "\r"}
SetMin(S) == CHOOSE x \in S : \A y \in S : x <= y
SetMax(S) == CHOOSE x \in S : \A y \in S : x >= y
Trim(s) ==
  LET keep == {i \in 1..Len(s) : ~IsWhitespace(s[i])}
  IN IF keep = {} THEN <<>> ELSE SubSeq(s, SetMin(keep), SetMax(keep))

Includes(hay, needle) ==
  \E i \in 0..(Len(hay) - Len(needle)) : SubSeq(hay, i + 1, i + Len(needle)) = needle

\* ------------------------------------------------------------------------
\* Program constants
\* ------------------------------------------------------------------------
MAX_PAYLOAD_SIZE == 50 * 1024 * 1024
\* a MIME type "type/subtype" as its three fragments
Mime(type, subtype) == <<type, "/", subtype>>
SUPPORTED_MIME_TYPES ==
  {Mime("image", "png"), Mime("image", "jpeg"), Mime("image", "jpg"),
   Mime("image", "webp"), Mime("image", "gif")}
ASPECT_RATIO_OPTIONS ==
  {<<"21:9">>, <<"16:9">>, <<"3:2">>, <<"4:3">>, <<"5:4">>, <<"1:1">>, <<"4:5">>,
   <<"3:4">>, <<"2:3">>, <<"9:16">>}
DEFAULT_ASPECT_RATIO == <<"1:1">>
RESOURCE_EXHAUSTED_CODE == 8
RESOURCE_EXHAUSTED_STATUS ==
  <<"R","E","S","O","U","R","C","E","_","E","X","H","A","U","S","T","E","D">>
QUOTA == <<"Q","U","O","T","A">>
\* config.image.maxReferenceImages (MAX_REFERENCE_IMAGES unset)
MaxReferenceImages == 2
\* config.image.outputFormat (IMAGE_OUTPUT_FORMAT unset)
OutputFormat == "png"
\* config.storage.folder (S3_FOLDER unset)
StorageFolder == "internaluse"

\* ensureValidAspectRatio(value)
ensureValidAspectRatio(value) ==
  IF Truthy(value) /\ value.s \in ASPECT_RATIO_OPTIONS
  THEN value
  ELSE Str(DEFAULT_ASPECT_RATIO)

\* ------------------------------------------------------------------------
\* Errors
\* ------------------------------------------------------------------------
\* new Error(message)
PlainError(message) ==
  [class |-> "Error", code |-> Undef, status |-> Undef, details |-> Undef,
   message |-> Str(message)]
\* new HttpError(status, message): details is left undefined
HttpError(status, message) ==
  [class |-> "HttpError", code |-> Undef, status |-> Num(status), details |-> Undef,
   message |-> Str(message)]
\* the ZodError thrown by imageFlowSchema.parse
ZodError ==
  [class |-> "ZodError", code |-> Undef, status |-> Undef, details |-> Undef,
   message |-> Str(<<"invalid_enum_value">>)]
\* new MulterError(code)
MulterError(code) ==
  [class |-> "MulterError", code |-> Str(<<code>>), status |-> Undef, details |-> Undef,
   message |-> Str(<<code>>)]

\* ------------------------------------------------------------------------
\* Response bodies: every key the handlers ever send; Undef = key not sent
\* ------------------------------------------------------------------------
EmptyBody ==
  [baseImage |-> Undef, baseImageKey |-> Undef,
   referenceImages |-> Undef, referenceImageKeys |-> Undef,
   prompt1 |-> Undef, prompt2 |-> Undef,
   outputImage |-> Undef, outputImageKey |-> Undef,
   isPromptGenerated |-> Undef, step2Executed |-> Undef,
   error |-> Undef, message |-> Undef, issues |-> Undef, details |-> Undef]

NoResponse == [status |-> 0, body |-> EmptyBody]

\* errorHandler(err, req, res, next)
errorHandler(err) ==
  IF err.class = "ZodError"
  THEN [status |-> 400,
        body |-> [EmptyBody EXCEPT !.message = Str(<<"Invalid payload">>),
                                   !.issues = err.message]]
  ELSE IF err.class = "HttpError"
  THEN [status |-> err.status.n,
        body |-> [EmptyBody EXCEPT !.message = err.message, !.details = err.details]]
  ELSE [status |-> 500,
        body |-> [EmptyBody EXCEPT !.message = Str(<<"Unexpected error occurred">>)]]

\* ------------------------------------------------------------------------
\* Bounds and sampled inputs
\* ------------------------------------------------------------------------
\* most reference files a client sends in one request
MaxRefsSent == 3

File(mimetype, size) == [mimetype |-> mimetype, size |-> size]

\* files a client may send: sizes around the 50 MB ceiling, one unsupported type
FileKinds ==
  {File(Mime("image", "png"), 0),
   File(Mime("image", "png"), 1),
   File(Mime("image", "jpeg"), MAX_PAYLOAD_SIZE),
   File(Mime("image", "png"), MAX_PAYLOAD_SIZE + 1),
   File(Mime("image", "bmp"), 1)}

\* userPrompt form values: absent, empty, whitespace only, " go "
UserPrompts ==
  {Undef, Str(<<>>), Str(<<" ", "\t">>), Str(<<" ", "g", "o", " ">>)}

\* aspectRatio form values: absent, two members of the enumeration, "auto"
AspectRatios == {Undef, Str(<<"16:9">>), Str(<<"4:5">>), Str(<<"auto">>)}

SeqsUpTo(S, n) == UNION {[1..k -> S] : k \in 0..n}

Requests ==
  [baseImage : SeqsUpTo(FileKinds, 1),
   referenceImages : SeqsUpTo(FileKinds, MaxRefsSent),
   userPrompt : UserPrompts,
   aspectRatio : AspectRatios]

NoRequest ==
  [baseImage |-> <<>>, referenceImages |-> <<>>, userPrompt |-> Undef,
   aspectRatio |-> Undef]

NoError == [class |-> "none"]

\* ------------------------------------------------------------------------
\* multer: upload.fields([...]) with limits and fileFilter
\* ------------------------------------------------------------------------
\* the files of the multipart body in arrival order, each with its field name
PartsOf(r) ==
  [i \in 1..(Len(r.baseImage) + Len(r.referenceImages)) |->
     IF i <= Len(r.baseImage)
     THEN [field |-> "baseImage", nth |-> i, file |-> r.baseImage[i]]
     ELSE [field |-> "referenceImages", nth |-> i - Len(r.baseImage),
           file |-> r.referenceImages[i - Len(r.baseImage)]]]

MaxCount(field) == IF field = "baseImage" THEN 1 ELSE MaxReferenceImages

\* fileFilter(req, file, cb)
fileFilter(file) ==
  IF file.mimetype \in SUPPORTED_MIME_TYPES
  THEN NoError
  ELSE PlainError(<<"Unsupported file type: ">> \o file.mimetype
                  \o <<". Supported formats: PNG, JPEG, WEBP, and non-animated GIF.">>)

\* what multer does with the i-th file of the body: files limit (busboy), the
\* field's maxCount, fileFilter, then the fileSize limit while storing
MulterPartError(parts, i) ==
  IF i > 1 + MaxReferenceImages THEN MulterError("LIMIT_FILE_COUNT")
  ELSE IF parts[i].nth > MaxCount(parts[i].field) THEN MulterError("LIMIT_UNEXPECTED_FILE")
  ELSE IF fileFilter(parts[i].file) # NoError THEN fileFilter(parts[i].file)
  ELSE IF parts[i].file.size > MAX_PAYLOAD_SIZE THEN MulterError("LIMIT_FILE_SIZE")
  ELSE NoError

\* the error multer passes to next(), or NoError when req.files is populated
MulterParse(r) ==
  LET parts == PartsOf(r)
      bad == {i \in 1..Len(parts) : MulterPartError(parts, i) # NoError}
  IN IF bad = {} THEN NoError ELSE MulterPartError(parts, SetMin(bad))

\* ------------------------------------------------------------------------
\* Request validation in the route handler
\* ------------------------------------------------------------------------
\* validateImage(file, context)
validateImage(file, context) ==
  IF file.mimetype \notin SUPPORTED_MIME_TYPES
  THEN HttpError(400, <<context, ": Unsupported image format. Supported: PNG, JPEG, WEBP, GIF. Received: ">>
                      \o file.mimetype)
  ELSE IF file.size > MAX_PAYLOAD_SIZE
  THEN HttpError(400, <<context, ": Image size exceeds 50 MB limit.">>)
  ELSE NoError

RECURSIVE SumSizes(_)
SumSizes(files) ==
  IF files = <<>> THEN 0 ELSE Head(files).size + SumSizes(Tail(files))

\* faulty variant of validateTotalPayloadSize: totalSize >= MAX_PAYLOAD_SIZE
validateTotalPayloadSizeStrict(baseImage, referenceImages) ==
  LET totalSize == baseImage.size + SumSizes(referenceImages)
  IN IF totalSize >= MAX_PAYLOAD_SIZE
     THEN HttpError(400, <<"Total image payload size exceeds 50 MB limit per request.">>)
     ELSE NoError

\* validateTotalPayloadSize(baseImage, referenceImages)
validateTotalPayloadSize(baseImage, referenceImages) ==
  LET totalSize == baseImage.size + SumSizes(referenceImages)
  IN IF totalSize > MAX_PAYLOAD_SIZE
     THEN HttpError(400, <<"Total image payload size exceeds 50 MB limit per request.">>)
     ELSE NoError

\* faulty variant of imageFlowSchemaParse: aspectRatio: z.string().optional()
imageFlowSchemaParseAnyRatio(r) == NoError

\* imageFlowSchema.parse({userPrompt, aspectRatio})
imageFlowSchemaParse(r) ==
  IF r.aspectRatio = Undef \/ (IsStr(r.aspectRatio) /\ r.aspectRatio.s \in ASPECT_RATIO_OPTIONS)
  THEN NoError
  ELSE ZodError

\* the synchronous head of the handler: the first error thrown before any upload
ValidateRequest(r) ==
  IF r.baseImage = <<>> THEN HttpError(400, <<"baseImage file is required">>)
  ELSE
    LET baseImage == r.baseImage[1]
        referenceImages == r.referenceImages
        badRefs == {i \in 1..Len(referenceImages) :
                      validateImage(referenceImages[i], "Reference image") # NoError}
    IN IF validateImage(baseImage, "Base image") # NoError
       THEN validateImage(baseImage, "Base image")
       ELSE IF badRefs # {}
       THEN validateImage(referenceImages[SetMin(badRefs)], "Reference image")
       ELSE IF validateTotalPayloadSize(baseImage, referenceImages) # NoError
       THEN validateTotalPayloadSize(baseImage, referenceImages)
       ELSE imageFlowSchemaParse(r)

\* ------------------------------------------------------------------------
\* StorageService.uploadBuffer
\* ------------------------------------------------------------------------
\* config.storage.publicBaseUrl (S3_PUBLIC_LINK), ending in "/"
StorageOrigin == "https://public.example"
PublicBaseUrl == <<StorageOrigin, "/">>
\* the same setting written without the closing "/"
PublicBaseUrlNoSlash == <<StorageOrigin>>

\* mimeType.split('/')[1]
MimeSubtype(mimeType) ==
  LET slashes == {i \in 1..Len(mimeType) : mimeType[i] = "/"}
  IN IF slashes = {} THEN Undef
     ELSE LET a == SetMin(slashes)
              later == {i \in slashes : i > a}
              b == IF later = {} THEN Len(mimeType) + 1 ELSE SetMin(later)
          IN Str(SubSeq(mimeType, a + 1, b - 1))

\* faulty variant of StorageKey: the object is named after its content type
StorageKeyFromContent(prefix, id, mimeType, extension) ==
  LET ext == Coalesce(Coalesce(extension, MimeSubtype(mimeType)), Str(<<"bin">>))
  IN <<StorageFolder, "/", prefix, "/">> \o mimeType \o <<".">> \o ext.s

\* `${config.storage.folder}/${options.prefix}/${id}.${extension}`
StorageKey(prefix, id, mimeType, extension) ==
  LET ext == Coalesce(Coalesce(extension, MimeSubtype(mimeType)), Str(<<"bin">>))
  IN <<StorageFolder, "/", prefix, "/", ToString(id), ".">> \o ext.s

\* scheme and authority fragments that make a URL absolute
ForeignOrigin == "https://evil.example"
AbsolutePrefixes == {StorageOrigin, ForeignOrigin}
\* faulty variant of NewURL: the input is taken as the URL, the base is ignored
NewURLIgnoresBase(input, base) == input

\* the path of a base URL up to and including its last "/" ("/" for an empty path)
DirectoryOf(path) ==
  LET slashes == {i \in 1..Len(path) : path[i] = "/"}
  IN IF slashes = {} THEN <<"/">> ELSE SubSeq(path, 1, SetMax(slashes))
\* new URL(input, base).toString(): an absolute input stands for itself, an
\* input starting with "/" replaces the path of the base, any other input
\* replaces what follows the last "/" of the base's path
NewURL(input, base) ==
  IF input # <<>> /\ input[1] \in AbsolutePrefixes THEN input
  ELSE IF input # <<>> /\ input[1] = "/" THEN <<base[1]>> \o input
  ELSE <<base[1]>> \o DirectoryOf(Tail(base)) \o input
\* s.startsWith(prefix)
StartsWith(s, prefix) ==
  Len(s) >= Len(prefix) /\ SubSeq(s, 1, Len(prefix)) = prefix

\* new URL(key, config.storage.publicBaseUrl).toString()
PublicUrl(key) == NewURL(key, cfg.publicBaseUrl)

NoUpload == [state |-> "none", key |-> <<>>, url |-> <<>>, contentType |-> <<>>]
\* an uploadBuffer call whose PutObject is in flight
PendingUpload(prefix, id, mimeType, extension) ==
  [state |-> "pending",
   key |-> StorageKey(prefix, id, mimeType, extension),
   url |-> PublicUrl(StorageKey(prefix, id, mimeType, extension)),
   contentType |-> mimeType]
UploadCall(u) == [call |-> "uploadBuffer", detail |-> [key |-> u.key, contentType |-> u.contentType]]
StoredObject(u) == [key |-> u.key, contentType |-> u.contentType]
StorageFailure == PlainError(<<"PutObject failed">>)

\* ------------------------------------------------------------------------
\* OpenAIService
\* ------------------------------------------------------------------------
Chars_im_sorry == <<"i","'","m"," ","s","o","r","r","y">>
Chars_i_cant_assist == <<"i"," ","c","a","n","'","t"," ","a","s","s","i","s","t">>
Chars_cant_help == <<"c","a","n","'","t"," ","h","e","l","p">>
Chars_cannot == <<"c","a","n","n","o","t">>
Chars_unable_to == <<"u","n","a","b","l","e"," ","t","o">>

\* outcome of an awaited call: a value or a thrown error
Returned(v) == [threw |-> FALSE, value |-> v, error |-> NoError]
Threw(e) == [threw |-> TRUE, value |-> Undef, error |-> e]

PromptGenerationResponse(prompt, isPromptGenerated) ==
  [prompt |-> prompt, isPromptGenerated |-> isPromptGenerated]

\* a reply of the chat-completions endpoint: a transport failure, or the content
\* of the first choice; for a JSON-mode reply, parsed is what JSON.parse makes
\* of the first "{...}" block of content
TransportError == PlainError(<<"OpenAI API error (500): upstream">>)
ReplyError == [k |-> "error", content |-> <<>>, parsed |-> [k |-> "none"]]
ReplyText(content) == [k |-> "content", content |-> content, parsed |-> [k |-> "none"]]
ReplyJson(content, parsed) == [k |-> "content", content |-> content, parsed |-> parsed]
ParsedObject(prompt, flag) == [k |-> "object", prompt |-> prompt, isPromptGenerated |-> flag]
ParseFailure == [k |-> "SyntaxError"]

\* chatCompletions(messages, options): the content, or a throw
chatCompletions(reply) ==
  IF reply.k = "error" THEN Threw(TransportError)
  ELSE IF reply.content = <<>> THEN Threw(PlainError(<<"OpenAI did not return any content">>))
  ELSE Returned(reply.content)

\* reconstructPromptFromImage(imageBuffer, mimeType)
reconstructPromptFromImage(reply) ==
  LET got == chatCompletions(reply)
      content == got.value
      isRefusal ==
        \/ Includes(ToLowerCase(content), Chars_im_sorry)
        \/ Includes(ToLowerCase(content), Chars_i_cant_assist)
        \/ Includes(ToLowerCase(content), Chars_cant_help)
        \/ Includes(ToLowerCase(content), Chars_cannot)
        \/ Includes(ToLowerCase(content), Chars_unable_to)
  IN IF got.threw THEN got
     ELSE Returned(PromptGenerationResponse(content, ~isRefusal))

\* content.match(/\{[\s\S]*\}/)
HasJsonBlock(content) ==
  \E i, j \in 1..Len(content) : i < j /\ content[i] = "{" /\ content[j] = "}"

\* chatCompletionsJSON(messages, options)
chatCompletionsJSON(reply) ==
  LET got == chatCompletions(reply)
      content == got.value
      parsed == reply.parsed
      isRefusal ==
        \/ Includes(ToLowerCase(content), Chars_im_sorry)
        \/ Includes(ToLowerCase(content), Chars_i_cant_assist)
        \/ Includes(ToLowerCase(content), Chars_cannot)
        \/ Includes(ToLowerCase(content), Chars_unable_to)
  IN IF got.threw THEN got
     ELSE IF ~HasJsonBlock(content)
     THEN Returned(PromptGenerationResponse(content, FALSE))
     ELSE IF parsed.k = "SyntaxError"
     THEN Returned(PromptGenerationResponse(content, ~isRefusal))
     ELSE IF parsed.prompt.k = "string" /\ parsed.isPromptGenerated.k = "boolean"
     THEN Returned(PromptGenerationResponse(Trim(parsed.prompt.s), parsed.isPromptGenerated.b))
     ELSE Returned(PromptGenerationResponse(
            IF Truthy(parsed.prompt) THEN parsed.prompt.s ELSE content,
            IF parsed.isPromptGenerated.k = "boolean" THEN parsed.isPromptGenerated.b
            ELSE FALSE))

\* applyUserInstructions(basePrompt, userInstructions, referenceImageBuffers)
applyUserInstructions(reply) == chatCompletionsJSON(reply)

\* ------------------------------------------------------------------------
\* GeminiService and FalImageService
\* ------------------------------------------------------------------------
\* a value thrown that is not an object (null, undefined, a string)
ThrownPrimitive(v) ==
  [class |-> "primitive", code |-> Undef, status |-> Undef, details |-> Undef,
   message |-> Undef, value |-> v]
\* an error object as the Vertex AI SDK rejects with
ProviderError(code, status, details, message) ==
  [class |-> "Error", code |-> code, status |-> status, details |-> details,
   message |-> message]

\* faulty variant of DetailText: the text is searched without upper-casing
DetailTextAsWritten(error) ==
  Coalesce(error.details, Str(<<>>)).s \o <<" ">> \o Coalesce(error.message, Str(<<>>)).s

\* `${candidate.details ?? ''} ${candidate.message ?? ''}`.toUpperCase()
DetailText(error) ==
  ToUpperCase(Coalesce(error.details, Str(<<>>)).s \o <<" ">>
              \o Coalesce(error.message, Str(<<>>)).s)

\* isQuotaExhaustedError(error)
isQuotaExhaustedError(error) ==
  IF error.class = "primitive" THEN FALSE
  ELSE IF \/ error.code = Num(RESOURCE_EXHAUSTED_CODE)
          \/ error.code = Str(RESOURCE_EXHAUSTED_STATUS)
          \/ error.status = Str(RESOURCE_EXHAUSTED_STATUS)
  THEN TRUE
  ELSE \/ Includes(DetailText(error), RESOURCE_EXHAUSTED_STATUS)
       \/ Includes(DetailText(error), QUOTA)

\* buildVertexGenerationConfig(options)
buildVertexGenerationConfig(options) ==
  IF ~Truthy(options.aspectRatio) THEN Undef
  ELSE [k |-> "object", imageConfig |-> [aspectRatio |-> options.aspectRatio]]

\* faulty variant of ResolveOptions: the options are passed on as given
ResolveOptionsWithoutDefault(options, config) == [aspectRatio |-> options.aspectRatio]

\* resolvedOptions of generateImage: options.aspectRatio ?? config.fal.aspectRatio
ResolveOptions(options, config) ==
  [aspectRatio |-> Coalesce(options.aspectRatio, config.falAspectRatio)]

PrimaryCall(prompt, options) ==
  [call |-> "generateContent",
   detail |-> [prompt |-> prompt, generationConfig |-> buildVertexGenerationConfig(options)]]
\* faulty variant of FallbackCall: the resolved options are not passed on
FallbackCallWithoutOptions(prompt, options) ==
  [call |-> "fallback.generateImage",
   detail |-> [prompt |-> prompt, options |-> [aspectRatio |-> Undef]]]
FallbackCall(prompt, options) ==
  [call |-> "fallback.generateImage", detail |-> [prompt |-> prompt, options |-> options]]
\* the POST body of FalImageService.generateImage
FalPostCall(prompt, options, config) ==
  [call |-> "fal.post",
   detail |-> [prompt |-> prompt, num_images |-> 1,
               aspect_ratio |-> Coalesce(options.aspectRatio, config.falAspectRatio),
               output_format |-> OutputFormat]]
FalDownloadCall == [call |-> "fal.download", detail |-> [url |-> "images[0].url"]]

NoInlineData == PlainError(<<"Gemini did not return inline image data">>)
FalKeyMissing ==
  PlainError(<<"FAL_API_KEY must be configured to use fal.ai as a fallback provider.">>)
FalRequestFailed == PlainError(<<"fal.ai request failed (500): upstream">>)
FalNoImageUrl == PlainError(<<"fal.ai response did not include an image URL.">>)
FalDownloadFailed == PlainError(<<"fal.ai image download failed with status 500.">>)

VertexImage == Str(<<"vertex-image-bytes">>)
FalImage == Str(<<"fal-image-bytes">>)

NoArgs == [prompt |-> <<>>, options |-> [aspectRatio |-> Undef]]

\* ------------------------------------------------------------------------
\* Sampled replies of the external services
\* ------------------------------------------------------------------------
Text_A_cat == <<"A", " ", "c", "a", "t">>
Text_A_dog == <<"A", " ", "d", "o", "g">>

\* Stage 1 replies: transport error, no content, whitespace, two characters,
\* a prompt with padding, a refusal in upper case
Stage1Replies ==
  {ReplyError,
   ReplyText(<<>>),
   ReplyText(<<" ", " ">>),
   ReplyText(<<" ", "a", "b">>),
   ReplyText(<<" ">> \o Text_A_cat \o <<" ">>),
   ReplyText(<<"I", " ", "C", "A", "N", "N", "O", "T">>)}

\* Stage 2 replies: transport error; JSON objects of the expected shape (a prompt
\* with padding, a refusal with text, a refusal without text, a two-character
\* prompt, a blank prompt); a reply with no JSON block; a block that does not
\* parse; an object without the flag
Stage2Replies ==
  {ReplyError,
   ReplyJson(<<"{", "}">>, ParsedObject(Str(<<" ">> \o Text_A_dog \o <<" ">>), Bool(TRUE))),
   ReplyJson(<<"{", "}">>, ParsedObject(Str(<<"n", "o">>), Bool(FALSE))),
   ReplyJson(<<"{", "}">>, ParsedObject(Str(<<>>), Bool(FALSE))),
   ReplyJson(<<"{", "}">>, ParsedObject(Str(<<"a", "b">>), Bool(TRUE))),
   ReplyJson(<<"{", "}">>, ParsedObject(Str(<<" ">>), Bool(TRUE))),
   ReplyText(Text_A_dog),
   ReplyJson(<<"{">> \o Text_A_dog \o <<"}">>, ParseFailure),
   ReplyJson(<<"{", "}">>, ParsedObject(Str(Text_A_dog), Undef))}

Chars_boom == <<"b", "o", "o", "m">>
\* errors of the primary provider seen by a request of the pipeline
FlowErrors ==
  {ProviderError(Undef, Undef, Undef, Str(Chars_boom)),
   ProviderError(Num(RESOURCE_EXHAUSTED_CODE), Str(RESOURCE_EXHAUSTED_STATUS), Undef,
                 Str(RESOURCE_EXHAUSTED_STATUS))}

\* ------------------------------------------------------------------------
\* GET /api/image-proxy: requests and responses
\* ------------------------------------------------------------------------
\* req.query of a proxy request
ProxyRequest(url, key) == [url |-> url, key |-> key]
NoProxyRequest == ProxyRequest(Undef, Undef)
\* a URL outside the storage domain
ForeignUrl == <<ForeignOrigin, "/", "x", ".", "png">>
\* a key as uploadBuffer returns it
SampleKey == StorageKey("inputs", 1, Mime("image", "png"), Undef)
\* query values: absent, empty, a storage key, a foreign URL; for url also the
\* configured public base URL followed by each key
ProxyKeys == {Undef, Str(<<>>), Str(SampleKey), Str(ForeignUrl)}
ProxyUrls ==
  {Undef, Str(<<>>), Str(ForeignUrl)}
  \cup {Str(cfg.publicBaseUrl \o key.s) : key \in {k \in ProxyKeys : Truthy(k)}}
\* what fetch(finalUrl) settles with
FetchOutcomes ==
  {[k |-> "response", ok |-> TRUE, status |-> 200, contentType |-> Str(Mime("image", "png"))],
   [k |-> "response", ok |-> TRUE, status |-> 200, contentType |-> Null],
   [k |-> "response", ok |-> FALSE, status |-> 404, contentType |-> Null],
   [k |-> "error", ok |-> FALSE, status |-> 0, contentType |-> Null]}
\* the response of the proxy: status, Content-Type header, and the body sent
\* (image bytes with res.send, or the JSON of errorHandler)
NoProxyResponse == [status |-> 0, contentType |-> Undef, cacheControl |-> Undef, body |-> Undef]

\* ------------------------------------------------------------------------
\* State
\* ------------------------------------------------------------------------
vars ==
  <<cfg, req, pc, response, calls, store, nextId, baseUpload, refUploads,
    prompt1, prompt2, step2Executed, genPc, genArgs, genCaught, genOutcome,
    storageUploads, proxyPc, proxyReq, proxyFetch, proxyResponse,
    aiCall, abortedAt, isLoading, progressLabel, flowError, flowResult, runs,
    history, persisted, nextItemId>>
proxyVars == <<proxyPc, proxyReq, proxyFetch, proxyResponse>>
openaiVars == <<aiCall>>
clientVars == <<abortedAt>>
hookVars == <<isLoading, progressLabel, flowError, flowResult, runs>>
historyVars == <<history, persisted, nextItemId>>
frontendVars == <<hookVars, historyVars>>
handlerLocals == <<baseUpload, refUploads, prompt1, prompt2, step2Executed>>
genVars == <<genPc, genArgs, genCaught, genOutcome>>

NoOutcome == [threw |-> FALSE, value |-> Undef, error |-> NoError]
NoAiCall == [method |-> "none", reply |-> ReplyError, outcome |-> NoOutcome]

\* const MAX_HISTORY_ITEMS = 50
MAX_HISTORY_ITEMS == 50
\* the mount effect: JSON.parse of the stored entry, or the initial [] when
\* localStorage.getItem returns null
LoadHistory(stored) == IF stored = Null THEN <<>> ELSE stored.items

\* process.env as config.ts reads it: OPENAI_API_KEY and FAL_API_KEY may be unset
Configs ==
  [openaiApiKey : BOOLEAN, falApiKey : BOOLEAN,
   falAspectRatio : {ensureValidAspectRatio(Undef), ensureValidAspectRatio(Str(<<"9:16">>))},
   publicBaseUrl : {PublicBaseUrl, PublicBaseUrlNoSlash}]

\* the backend before any request, under configuration c
InitBackend(c) ==
  /\ cfg = c
  /\ req = NoRequest
  /\ pc = "idle"
  /\ response = NoResponse
  /\ calls = <<>>
  /\ store = {}
  /\ nextId = 1
  /\ baseUpload = NoUpload
  /\ refUploads = <<>>
  /\ prompt1 = Undef
  /\ prompt2 = Undef
  /\ step2Executed = FALSE
  /\ genPc = "idle"
  /\ genArgs = NoArgs
  /\ genCaught = NoError
  /\ genOutcome = NoOutcome
  /\ storageUploads = <<>>
  /\ proxyPc = "idle"
  /\ proxyReq = NoProxyRequest
  /\ proxyFetch = <<>>
  /\ proxyResponse = NoProxyResponse
  /\ aiCall = NoAiCall
  /\ abortedAt = -1

\* useImageFlow as first rendered: the useState initial values, no call made
InitHook ==
  /\ isLoading = FALSE
  /\ progressLabel = Null
  /\ flowError = Null
  /\ flowResult = Null
  /\ runs = <<>>

\* useImageHistory after its mount effect has loaded what localStorage holds
InitHistory(stored) ==
  /\ persisted = stored
  /\ history = LoadHistory(stored)
  /\ nextItemId = MAX_HISTORY_ITEMS + 1

\* the state before any request, under configuration c
InitUnder(c) == InitBackend(c) /\ InitHook /\ InitHistory(Null)

\* the pipeline is started with S3_PUBLIC_LINK ending in "/"
Init == \E c \in Configs : c.publicBaseUrl = PublicBaseUrl /\ InitUnder(c)

\* ------------------------------------------------------------------------
\* GeminiService.generateImage
\* ------------------------------------------------------------------------
\* generateImage up to its first await: resolve the options, call the primary
GenStart(prompt, options, log) ==
  LET resolvedOptions == ResolveOptions(options, cfg)
  IN /\ genArgs' = [prompt |-> prompt, options |-> resolvedOptions]
     /\ genPc' = "primary"
     /\ genCaught' = NoError
     /\ genOutcome' = NoOutcome
     /\ calls' = Append(log, PrimaryCall(prompt, resolvedOptions))

\* faulty variant of CatchPrimary: a non-quota error is wrapped in a new Error
CatchPrimaryWrapsError(error) ==
  /\ genCaught' = error
  /\ IF isQuotaExhaustedError(error)
     THEN IF ~cfg.falApiKey
          THEN /\ genPc' = "settled"
               /\ genOutcome' = Threw(FalKeyMissing)
               /\ calls' = Append(calls, FallbackCall(genArgs.prompt, genArgs.options))
          ELSE /\ genPc' = "falPost"
               /\ genOutcome' = genOutcome
               /\ calls' = calls \o <<FallbackCall(genArgs.prompt, genArgs.options),
                                      FalPostCall(genArgs.prompt, genArgs.options, cfg)>>
     ELSE /\ genPc' = "settled"
          /\ genOutcome' = Threw(PlainError(<<"Gemini Vertex AI image generation failed">>))
          /\ calls' = calls

\* faulty variant of CatchPrimary: the fallback posts without checking its key
CatchPrimaryWithoutKeyCheck(error) ==
  /\ genCaught' = error
  /\ IF isQuotaExhaustedError(error)
     THEN /\ genPc' = "falPost"
          /\ genOutcome' = genOutcome
          /\ calls' = calls \o <<FallbackCall(genArgs.prompt, genArgs.options),
                                 FalPostCall(genArgs.prompt, genArgs.options, cfg)>>
     ELSE /\ genPc' = "settled"
          /\ genOutcome' = Threw(error)
          /\ calls' = calls

\* the catch block of generateImage, entering FalImageService.generateImage
CatchPrimary(error) ==
  /\ genCaught' = error
  /\ IF isQuotaExhaustedError(error)
     THEN IF ~cfg.falApiKey
          THEN /\ genPc' = "settled"
               /\ genOutcome' = Threw(FalKeyMissing)
               /\ calls' = Append(calls, FallbackCall(genArgs.prompt, genArgs.options))
          ELSE /\ genPc' = "falPost"
               /\ genOutcome' = genOutcome
               /\ calls' = calls \o <<FallbackCall(genArgs.prompt, genArgs.options),
                                      FalPostCall(genArgs.prompt, genArgs.options, cfg)>>
     ELSE /\ genPc' = "settled"
          /\ genOutcome' = Threw(error)
          /\ calls' = calls

\* model.generateContent resolves, with or without inline image data
PrimaryResolves(hasInlineData) ==
  /\ genPc = "primary"
  /\ IF hasInlineData
     THEN /\ genPc' = "settled"
          /\ genOutcome' = Returned(VertexImage)
          /\ genCaught' = genCaught
          /\ calls' = calls
     ELSE CatchPrimary(NoInlineData)
  /\ genArgs' = genArgs
  /\ UNCHANGED <<cfg, storageUploads, proxyVars, openaiVars, clientVars, frontendVars, req, pc, response, store, nextId, handlerLocals>>

\* model.generateContent rejects
PrimaryRejects(error) ==
  /\ genPc = "primary"
  /\ CatchPrimary(error)
  /\ genArgs' = genArgs
  /\ UNCHANGED <<cfg, storageUploads, proxyVars, openaiVars, clientVars, frontendVars, req, pc, response, store, nextId, handlerLocals>>

\* the POST to the fal.ai endpoint completes
FalPostDone(outcome) ==
  /\ genPc = "falPost"
  /\ CASE outcome = "notOk" ->
            /\ genPc' = "settled"
            /\ genOutcome' = Threw(FalRequestFailed)
            /\ calls' = calls
       [] outcome = "noImageUrl" ->
            /\ genPc' = "settled"
            /\ genOutcome' = Threw(FalNoImageUrl)
            /\ calls' = calls
       [] OTHER ->
            /\ genPc' = "falDownload"
            /\ genOutcome' = genOutcome
            /\ calls' = Append(calls, FalDownloadCall)
  /\ UNCHANGED <<genArgs, genCaught>>
  /\ UNCHANGED <<cfg, storageUploads, proxyVars, openaiVars, clientVars, frontendVars, req, pc, response, store, nextId, handlerLocals>>

\* the GET of the first image URL completes
FalDownloadDone(ok) ==
  /\ genPc = "falDownload"
  /\ genPc' = "settled"
  /\ genOutcome' = IF ok THEN Returned(FalImage) ELSE Threw(FalDownloadFailed)
  /\ UNCHANGED <<cfg, storageUploads, proxyVars, openaiVars, clientVars, frontendVars, req, pc, response, calls, store, nextId, handlerLocals, genArgs,
                 genCaught>>

\* ------------------------------------------------------------------------
\* POST /api/image-flow
\* ------------------------------------------------------------------------
\* faulty variant of OrElse: the left operand is kept even when empty
OrElseKeepsEmpty(text, fallback) == text

\* a || b on strings
OrElse(text, fallback) == IF text # <<>> THEN text ELSE fallback

UrlsOf(uploads) == [k |-> "array", items |-> [i \in 1..Len(uploads) |-> uploads[i].url]]
KeysOf(uploads) == [k |-> "array", items |-> [i \in 1..Len(uploads) |-> uploads[i].key]]

\* faulty variant of ShortCircuitBody: prompt2 always carries a placeholder text
ShortCircuitBodyPlaceholderPrompt2(p1, p2, error) ==
  [EmptyBody EXCEPT
     !.baseImage = Str(baseUpload.url),
     !.referenceImages = UrlsOf(refUploads),
     !.prompt1 = p1,
     !.prompt2 = Str(<<"Prompt generation failed">>),
     !.outputImage = Null,
     !.error = Str(error),
     !.isPromptGenerated = Bool(FALSE)]

\* the body of the 502 early returns of Step 1 and Step 2
ShortCircuitBody(p1, p2, error) ==
  [EmptyBody EXCEPT
     !.baseImage = Str(baseUpload.url),
     !.referenceImages = UrlsOf(refUploads),
     !.prompt1 = p1,
     !.prompt2 = p2,
     !.outputImage = Null,
     !.error = Str(error),
     !.isPromptGenerated = Bool(FALSE)]

\* faulty variant of SuccessBody: isPromptGenerated copied from step2Executed
SuccessBodyFlagFromStep2(outputUpload) ==
  [EmptyBody EXCEPT
     !.baseImage = Str(baseUpload.url),
     !.baseImageKey = Str(baseUpload.key),
     !.referenceImages = UrlsOf(refUploads),
     !.referenceImageKeys = KeysOf(refUploads),
     !.prompt1 = Str(prompt1.s),
     !.prompt2 = Str(prompt2.s),
     !.outputImage = Str(outputUpload.url),
     !.outputImageKey = Str(outputUpload.key),
     !.isPromptGenerated = Bool(step2Executed),
     !.step2Executed = Bool(step2Executed)]

\* the body of the final res.json
SuccessBody(outputUpload) ==
  [EmptyBody EXCEPT
     !.baseImage = Str(baseUpload.url),
     !.baseImageKey = Str(baseUpload.key),
     !.referenceImages = UrlsOf(refUploads),
     !.referenceImageKeys = KeysOf(refUploads),
     !.prompt1 = Str(prompt1.s),
     !.prompt2 = Str(prompt2.s),
     !.outputImage = Str(outputUpload.url),
     !.outputImageKey = Str(outputUpload.key),
     !.isPromptGenerated = Bool(TRUE),
     !.step2Executed = Bool(step2Executed)]

\* res.status(status).json(body), ending the handler
Respond(status, body) ==
  /\ response' = [status |-> status, body |-> body]
  /\ pc' = "done"

\* an error thrown out of the handler: asyncHandler passes it to errorHandler
Fail(error) ==
  /\ response' = errorHandler(error)
  /\ pc' = "done"

ReconstructCall(file) ==
  [call |-> "reconstructPromptFromImage", detail |-> [mimeType |-> file.mimetype]]
ApplyCall(basePrompt, userInstructions, referenceImageBuffers) ==
  [call |-> "applyUserInstructions",
   detail |-> [basePrompt |-> basePrompt, userInstructions |-> userInstructions,
               referenceImageBuffers |-> referenceImageBuffers]]
GenerateCall(prompt, options) ==
  [call |-> "generateImage", detail |-> [prompt |-> prompt, options |-> options]]

\* multer, then the handler up to its first await (the base image upload)
ReceiveRequest(r) ==
  /\ req' = r
  /\ IF MulterParse(r) # NoError
     THEN /\ Fail(MulterParse(r))
          /\ UNCHANGED <<calls, nextId, baseUpload>>
     ELSE IF ValidateRequest(r) # NoError
     THEN /\ Fail(ValidateRequest(r))
          /\ UNCHANGED <<calls, nextId, baseUpload>>
     ELSE LET u == PendingUpload("inputs", nextId, r.baseImage[1].mimetype, Undef)
          IN /\ baseUpload' = u
             /\ nextId' = nextId + 1
             /\ calls' = Append(calls, UploadCall(u))
             /\ pc' = "uploadBase"
             /\ response' = response
  /\ UNCHANGED <<cfg, storageUploads, proxyVars, openaiVars, clientVars, frontendVars, store, refUploads, prompt1, prompt2, step2Executed, genVars>>

\* a client posts a request
PostImageFlow ==
  /\ pc = "idle"
  /\ genPc = "idle"
  /\ \E r \in Requests : ReceiveRequest(r)

\* createOpenAIService(), then Step 1 up to its await
StartStage1(log) ==
  IF ~cfg.openaiApiKey
  THEN /\ Fail(PlainError(<<"OpenAI API key is required. Set OPENAI_API_KEY environment variable.">>))
       /\ calls' = log
  ELSE /\ pc' = "stage1"
       /\ response' = response
       /\ calls' = Append(log, ReconstructCall(req.baseImage[1]))

\* the base image upload settles; on success every reference upload is started
BaseUploadDone(ok) ==
  /\ pc = "uploadBase"
  /\ IF ~ok
     THEN /\ baseUpload' = [baseUpload EXCEPT !.state = "failed"]
          /\ Fail(StorageFailure)
          /\ UNCHANGED <<calls, store, nextId, refUploads>>
     ELSE LET n == Len(req.referenceImages)
              started == [i \in 1..n |->
                            PendingUpload("inputs", nextId + i - 1,
                                          req.referenceImages[i].mimetype, Undef)]
              log == calls \o [i \in 1..n |-> UploadCall(started[i])]
          IN /\ baseUpload' = [baseUpload EXCEPT !.state = "ok"]
             /\ store' = store \cup {StoredObject(baseUpload)}
             /\ refUploads' = started
             /\ nextId' = nextId + n
             /\ IF n = 0
                THEN StartStage1(log)
                ELSE /\ pc' = "uploadRefs"
                     /\ response' = response
                     /\ calls' = log
  /\ UNCHANGED <<cfg, storageUploads, proxyVars, openaiVars, clientVars, frontendVars, req, prompt1, prompt2, step2Executed, genVars>>

\* faulty variant of RefUploadDone: Promise.allSettled, a failed upload is ignored
RefUploadDoneIgnoresFailure(i, ok) ==
  /\ i \in 1..Len(refUploads)
  /\ refUploads[i].state = "pending"
  /\ refUploads' = [refUploads EXCEPT ![i].state = IF ok THEN "ok" ELSE "failed"]
  /\ store' = IF ok THEN store \cup {StoredObject(refUploads[i])} ELSE store
  /\ IF pc # "uploadRefs"
     THEN UNCHANGED <<pc, response, calls>>
     ELSE IF \A j \in 1..Len(refUploads) : refUploads'[j].state # "pending"
     THEN StartStage1(calls)
     ELSE UNCHANGED <<pc, response, calls>>
  /\ UNCHANGED <<cfg, storageUploads, proxyVars, openaiVars, clientVars, frontendVars, req, nextId, baseUpload, prompt1, prompt2, step2Executed, genVars>>

\* faulty variant of RefUploadDone: the handler goes on when the last upload
\* settles, also after a failure was answered
RefUploadDoneContinuesAfterFailure(i, ok) ==
  /\ i \in 1..Len(refUploads)
  /\ refUploads[i].state = "pending"
  /\ refUploads' = [refUploads EXCEPT ![i].state = IF ok THEN "ok" ELSE "failed"]
  /\ store' = IF ok THEN store \cup {StoredObject(refUploads[i])} ELSE store
  /\ IF ~ok
     THEN /\ Fail(StorageFailure)
          /\ calls' = calls
     ELSE IF \A j \in 1..Len(refUploads) : refUploads'[j].state # "pending"
     THEN StartStage1(calls)
     ELSE UNCHANGED <<pc, response, calls>>
  /\ UNCHANGED <<cfg, storageUploads, proxyVars, openaiVars, clientVars, frontendVars, req, nextId, baseUpload, prompt1, prompt2, step2Executed, genVars>>

\* one reference upload settles; Promise.all rejects on the first failure and
\* resolves once all have succeeded
RefUploadDone(i, ok) ==
  /\ i \in 1..Len(refUploads)
  /\ refUploads[i].state = "pending"
  /\ refUploads' = [refUploads EXCEPT ![i].state = IF ok THEN "ok" ELSE "failed"]
  /\ store' = IF ok THEN store \cup {StoredObject(refUploads[i])} ELSE store
  /\ IF pc # "uploadRefs"
     THEN UNCHANGED <<pc, response, calls>>
     ELSE IF ~ok
     THEN /\ Fail(StorageFailure)
          /\ calls' = calls
     ELSE IF \A j \in 1..Len(refUploads) : refUploads'[j].state = "ok"
     THEN StartStage1(calls)
     ELSE UNCHANGED <<pc, response, calls>>
  /\ UNCHANGED <<cfg, storageUploads, proxyVars, openaiVars, clientVars, frontendVars, req, nextId, baseUpload, prompt1, prompt2, step2Executed, genVars>>

\* Step 3 up to its await: geminiService.generateImage(prompt2, {aspectRatio})
StartStage3(finalPrompt, log) ==
  LET options == [aspectRatio |-> req.aspectRatio]
  IN /\ pc' = "stage3"
     /\ response' = response
     /\ GenStart(finalPrompt, options, Append(log, GenerateCall(finalPrompt, options)))

\* faulty variant of TrimmedUserPrompt: payload.userPrompt || '' without trim()
UntrimmedUserPrompt(r) == IF r.userPrompt = Undef THEN <<>> ELSE r.userPrompt.s

\* payload.userPrompt?.trim() || ''
TrimmedUserPrompt(r) == IF r.userPrompt = Undef THEN <<>> ELSE Trim(r.userPrompt.s)

\* faulty variant of SkipStep2Prompt: prompt2 = userPrompt
SkipStep2PromptFromInstructions(p1, userPrompt) == userPrompt

\* Step 2 skipped: prompt2 = prompt1
SkipStep2Prompt(p1, userPrompt) == p1

\* Step 2 decision after Step 1 produced newPrompt1: skip it, or call the editor
AfterStage1(newPrompt1) ==
  LET userPrompt == TrimmedUserPrompt(req)
      hasUserInstructions == Len(userPrompt) > 0
      referenceImageBuffers ==
        IF Len(req.referenceImages) > 0
        THEN [k |-> "array",
              items |-> [i \in 1..Len(req.referenceImages) |-> req.referenceImages[i].mimetype]]
        ELSE Undef
  IN /\ prompt1' = Str(newPrompt1)
     /\ IF ~hasUserInstructions
        THEN /\ prompt2' = Str(SkipStep2Prompt(newPrompt1, userPrompt))
             /\ step2Executed' = FALSE
             /\ StartStage3(SkipStep2Prompt(newPrompt1, userPrompt), calls)
        ELSE /\ pc' = "stage2"
             /\ response' = response
             /\ calls' = Append(calls, ApplyCall(newPrompt1, userPrompt, referenceImageBuffers))
             /\ UNCHANGED <<prompt2, step2Executed, genVars>>

\* the Step 1 call settles
Stage1Done(reply) ==
  /\ pc = "stage1"
  /\ LET got == reconstructPromptFromImage(reply)
         promptResponse1 == got.value
         trimmedPrompt1 == Trim(promptResponse1.prompt)
     IN IF got.threw
        THEN /\ Respond(502, ShortCircuitBody(Null, Null,
                     <<"OpenAI prompt reconstruction failed: ">> \o got.error.message.s))
             /\ UNCHANGED <<calls, prompt1, prompt2, step2Executed, genVars>>
        ELSE IF ~promptResponse1.isPromptGenerated
        THEN /\ Respond(502, ShortCircuitBody(
                     Str(OrElse(promptResponse1.prompt, <<"Prompt reconstruction failed">>)),
                     Null,
                     <<"OpenAI could not reconstruct the prompt: ">>
                       \o OrElse(promptResponse1.prompt,
                                 <<"Request was refused. Please try with a different image.">>)))
             /\ UNCHANGED <<calls, prompt1, prompt2, step2Executed, genVars>>
        ELSE IF trimmedPrompt1 = <<>> \/ Len(trimmedPrompt1) < 3
        THEN /\ Respond(502, ShortCircuitBody(
                     Str(OrElse(trimmedPrompt1, <<"Invalid prompt">>)),
                     Null,
                     <<"OpenAI did not return a valid reconstructed prompt. Please try again with a different image.">>))
             /\ UNCHANGED <<calls, prompt1, prompt2, step2Executed, genVars>>
        ELSE AfterStage1(trimmedPrompt1)
  /\ UNCHANGED <<cfg, storageUploads, proxyVars, openaiVars, clientVars, frontendVars, req, store, nextId, baseUpload, refUploads>>

\* the Step 2 call settles
Stage2Done(reply) ==
  /\ pc = "stage2"
  /\ LET got == applyUserInstructions(reply)
         promptResponse == got.value
         trimmedPrompt2 == Trim(promptResponse.prompt)
     IN IF got.threw
        THEN /\ Respond(502, ShortCircuitBody(Str(prompt1.s), Null,
                     <<"OpenAI prompt editing failed: ">> \o got.error.message.s))
             /\ UNCHANGED <<calls, prompt2, step2Executed, genVars>>
        ELSE IF ~promptResponse.isPromptGenerated
        THEN /\ Respond(502, ShortCircuitBody(
                     Str(prompt1.s),
                     Str(OrElse(promptResponse.prompt, <<"Prompt generation failed">>)),
                     <<"OpenAI could not generate the prompt: ">>
                       \o OrElse(promptResponse.prompt,
                                 <<"Request was refused. Please try different instructions.">>)))
             /\ UNCHANGED <<calls, prompt2, step2Executed, genVars>>
        ELSE IF trimmedPrompt2 = <<>> \/ Len(trimmedPrompt2) < 3
        THEN /\ Respond(502, ShortCircuitBody(
                     Str(prompt1.s),
                     Str(OrElse(trimmedPrompt2, <<"Invalid prompt">>)),
                     <<"OpenAI did not return a valid updated prompt. Please try again.">>))
             /\ UNCHANGED <<calls, prompt2, step2Executed, genVars>>
        ELSE /\ prompt2' = Str(trimmedPrompt2)
             /\ step2Executed' = TRUE
             /\ StartStage3(trimmedPrompt2, calls)
  /\ UNCHANGED <<cfg, storageUploads, proxyVars, openaiVars, clientVars, frontendVars, req, store, nextId, baseUpload, refUploads, prompt1>>

NoOutputUpload == NoUpload

\* generateImage settled: its error leaves the handler, or the output upload starts
Stage3Done ==
  /\ pc = "stage3"
  /\ genPc = "settled"
  /\ IF genOutcome.threw
     THEN /\ Fail(genOutcome.error)
          /\ UNCHANGED <<calls, nextId>>
     ELSE LET u == PendingUpload("outputs", nextId, Mime("image", OutputFormat),
                                 Str(<<OutputFormat>>))
          IN /\ pc' = "uploadOutput"
             /\ response' = response
             /\ calls' = Append(calls, UploadCall(u))
             /\ nextId' = nextId + 1
  /\ UNCHANGED <<cfg, storageUploads, proxyVars, openaiVars, clientVars, frontendVars, req, store, handlerLocals, genVars>>

\* the output upload in flight: the uploadBuffer call logged last
OutputUpload ==
  LET c == calls[Len(calls)]
  IN [state |-> "pending", key |-> c.detail.key, url |-> PublicUrl(c.detail.key),
      contentType |-> c.detail.contentType]

\* faulty variant of OutputUploadDone: the upload is not awaited, its failure is lost
OutputUploadDoneNotAwaited(ok) ==
  /\ pc = "uploadOutput"
  /\ store' = IF ok THEN store \cup {StoredObject(OutputUpload)} ELSE store
  /\ Respond(200, SuccessBody(OutputUpload))
  /\ UNCHANGED <<cfg, storageUploads, proxyVars, openaiVars, clientVars, frontendVars, req, calls, nextId, handlerLocals, genVars>>

\* the output upload settles: the 200 response, or the storage error
OutputUploadDone(ok) ==
  /\ pc = "uploadOutput"
  /\ IF ok
     THEN /\ store' = store \cup {StoredObject(OutputUpload)}
          /\ Respond(200, SuccessBody(OutputUpload))
     ELSE /\ Fail(StorageFailure)
          /\ store' = store
  /\ UNCHANGED <<cfg, storageUploads, proxyVars, openaiVars, clientVars, frontendVars, req, calls, nextId, handlerLocals, genVars>>

\* ------------------------------------------------------------------------
\* Specifications
\* ------------------------------------------------------------------------
\* one request served by the backend
Next ==
  \/ PostImageFlow
  \/ \E ok \in BOOLEAN : BaseUploadDone(ok)
  \/ \E i \in 1..MaxReferenceImages, ok \in BOOLEAN : RefUploadDone(i, ok)
  \/ \E reply \in Stage1Replies : Stage1Done(reply)
  \/ \E reply \in Stage2Replies : Stage2Done(reply)
  \/ \E hasInlineData \in BOOLEAN : PrimaryResolves(hasInlineData)
  \/ \E error \in FlowErrors : PrimaryRejects(error)
  \/ \E outcome \in {"notOk", "noImageUrl", "ok"} : FalPostDone(outcome)
  \/ \E ok \in BOOLEAN : FalDownloadDone(ok)
  \/ Stage3Done
  \/ \E ok \in BOOLEAN : OutputUploadDone(ok)

Spec == Init /\ [][Next]_vars

\* GeminiService.generateImage called on its own, as tests/geminiService.test.ts does
Chars_quota == <<"q", "u", "o", "t", "a">>
Chars_QUO == <<"Q", "U", "O">>
Chars_TA == <<"T", "A">>
Chars_UNAVAILABLE == <<"U", "N", "A", "V", "A", "I", "L", "A", "B", "L", "E">>
Chars_exhausted == ToLowerCase(RESOURCE_EXHAUSTED_STATUS)

\* what the primary may reject with: every combination of the sampled code,
\* status, details and message values, and values that are not objects
AllErrors ==
  {ProviderError(code, status, details, message) :
     code \in {Undef, Num(RESOURCE_EXHAUSTED_CODE), Num(RESOURCE_EXHAUSTED_CODE + 1),
               Str(RESOURCE_EXHAUSTED_STATUS)},
     status \in {Undef, Str(RESOURCE_EXHAUSTED_STATUS), Str(Chars_UNAVAILABLE)},
     details \in {Undef, Str(Chars_QUO), Str(Chars_quota)},
     message \in {Undef, Str(Chars_boom), Str(Chars_TA), Str(Chars_exhausted)}}
  \cup {ThrownPrimitive(Null), ThrownPrimitive(Undef), ThrownPrimitive(Str(QUOTA))}

GeminiPrompts == {Text_A_cat, Text_A_dog}
GeminiOptions == {[aspectRatio |-> Undef], [aspectRatio |-> Str(<<"16:9">>)]}

\* service.generateImage(prompt, options)
CallGenerateImage ==
  /\ pc = "idle"
  /\ genPc = "idle"
  /\ \E prompt \in GeminiPrompts, options \in GeminiOptions :
       GenStart(prompt, options, Append(calls, GenerateCall(prompt, options)))
  /\ UNCHANGED <<cfg, storageUploads, proxyVars, openaiVars, clientVars, frontendVars, req, pc, response, store, nextId, handlerLocals>>

NextGemini ==
  \/ CallGenerateImage
  \/ \E hasInlineData \in BOOLEAN : PrimaryResolves(hasInlineData)
  \/ \E error \in AllErrors : PrimaryRejects(error)
  \/ \E outcome \in {"notOk", "noImageUrl", "ok"} : FalPostDone(outcome)
  \/ \E ok \in BOOLEAN : FalDownloadDone(ok)

SpecGemini == Init /\ [][NextGemini]_vars

\* ------------------------------------------------------------------------
\* StorageService.uploadBuffer called by concurrently running requests
\* ------------------------------------------------------------------------
\* most uploadBuffer calls made by the concurrent callers
MaxUploads == 3

\* what the callers pass: prefix, mimeType and extension
UploadPrefixes == {"inputs", "outputs"}
UploadMimeTypes == {Mime("image", "png"), <<"image">>}
UploadExtensions == {Undef, Str(<<OutputFormat>>)}

\* uploadBuffer up to its await: the id is drawn, the key built, PutObject sent
UploadBufferCalled(prefix, mimeType, extension) ==
  /\ pc = "idle" /\ genPc = "idle" /\ proxyPc = "idle"
  /\ Len(storageUploads) < MaxUploads
  /\ LET u == PendingUpload(prefix, nextId, mimeType, extension)
     IN /\ storageUploads' = Append(storageUploads, u)
        /\ calls' = Append(calls, UploadCall(u))
        /\ nextId' = nextId + 1
  /\ UNCHANGED <<cfg, req, pc, response, store, handlerLocals, genVars, proxyVars,
               openaiVars, clientVars, frontendVars>>

\* client.send(command) settles: uploadBuffer returns {key, url}, or rejects
UploadBufferSettles(i, ok) ==
  /\ i \in 1..Len(storageUploads)
  /\ storageUploads[i].state = "pending"
  /\ storageUploads' = [storageUploads EXCEPT ![i].state = IF ok THEN "ok" ELSE "failed"]
  /\ store' = IF ok THEN store \cup {StoredObject(storageUploads[i])} ELSE store
  /\ UNCHANGED <<cfg, req, pc, response, calls, nextId, handlerLocals, genVars, proxyVars,
               openaiVars, clientVars, frontendVars>>

NextStorage ==
  \/ \E prefix \in UploadPrefixes, mimeType \in UploadMimeTypes,
        extension \in UploadExtensions : UploadBufferCalled(prefix, mimeType, extension)
  \/ \E i \in 1..MaxUploads, ok \in BOOLEAN : UploadBufferSettles(i, ok)

InitStorage == \E c \in Configs : c.openaiApiKey /\ c.falApiKey /\ InitUnder(c)
SpecStorage == InitStorage /\ [][NextStorage]_vars

\* ------------------------------------------------------------------------
\* GET /api/image-proxy
\* ------------------------------------------------------------------------
\* the proxy answers through errorHandler
ProxyFail(error) ==
  /\ proxyResponse' = [status |-> errorHandler(error).status,
                       contentType |-> Str(Mime("application", "json")),
                       cacheControl |-> Undef,
                       body |-> errorHandler(error).body.message]
  /\ proxyPc' = "done"

\* fetch(finalUrl) is started
ProxyFetch(finalUrl) ==
  /\ proxyFetch' = finalUrl
  /\ proxyPc' = "fetch"
  /\ proxyResponse' = proxyResponse

\* the handler up to its await: the upstream URL is chosen, or the request refused
ReceiveProxyRequest(query) ==
  LET imageUrl == query.url
      imageKey == query.key
      storageBaseUrl == cfg.publicBaseUrl
  IN /\ proxyReq' = query
     /\ IF Truthy(imageKey)
        THEN ProxyFetch(NewURL(imageKey.s, storageBaseUrl))
        ELSE IF Truthy(imageUrl)
        THEN IF storageBaseUrl # <<>> /\ ~StartsWith(imageUrl.s, storageBaseUrl)
             THEN /\ ProxyFail(HttpError(403, <<"Only images from configured storage are allowed">>))
                  /\ proxyFetch' = proxyFetch
             ELSE ProxyFetch(imageUrl.s)
        ELSE /\ ProxyFail(HttpError(400, <<"Missing required query parameter: url or key">>))
             /\ proxyFetch' = proxyFetch

\* a client requests an image through the proxy
GetImageProxy ==
  /\ pc = "idle" /\ genPc = "idle" /\ proxyPc = "idle"
  /\ \E url \in ProxyUrls, key \in ProxyKeys : ReceiveProxyRequest(ProxyRequest(url, key))
  /\ UNCHANGED <<cfg, req, pc, response, calls, store, nextId, handlerLocals, genVars, storageUploads,
               openaiVars, clientVars, frontendVars>>

\* the upstream fetch settles: the image is sent, or the error is answered
ProxyFetchDone(outcome) ==
  /\ proxyPc = "fetch"
  /\ IF outcome.k = "error"
     THEN ProxyFail(HttpError(500, <<"Failed to fetch image: network">>))
     ELSE IF ~outcome.ok
     THEN ProxyFail(HttpError(outcome.status, <<"Failed to fetch image: statusText">>))
     ELSE /\ proxyResponse' =
               [status |-> 200,
                contentType |-> IF Truthy(outcome.contentType) THEN outcome.contentType
                                ELSE Str(Mime("image", "jpeg")),
                cacheControl |-> Str(<<"public, max-age=31536000, immutable">>),
                body |-> Str(<<"bytes of ">> \o proxyFetch)]
          /\ proxyPc' = "done"
  /\ UNCHANGED <<proxyReq, proxyFetch>>
  /\ UNCHANGED <<cfg, req, pc, response, calls, store, nextId, handlerLocals, genVars, storageUploads,
               openaiVars, clientVars, frontendVars>>

NextProxy ==
  \/ GetImageProxy
  \/ \E outcome \in FetchOutcomes : ProxyFetchDone(outcome)

InitProxy == \E c \in Configs : InitUnder(c)
SpecProxy == InitProxy /\ [][NextProxy]_vars

\* ------------------------------------------------------------------------
\* Properties
\* ------------------------------------------------------------------------
CallsNamed(name) == {i \in 1..Len(calls) : calls[i].call = name}
\* uploadBuffer calls under the given prefix
UploadsUnder(prefix) ==
  {i \in CallsNamed("uploadBuffer") : calls[i].detail.key[3] = prefix}
SynthesisCalls ==
  CallsNamed("generateImage") \cup CallsNamed("generateContent")
  \cup CallsNamed("fallback.generateImage") \cup CallsNamed("fal.post")
ModelCalls ==
  CallsNamed("reconstructPromptFromImage") \cup CallsNamed("applyUserInstructions")
  \cup SynthesisCalls
AllFiles(r) == r.baseImage \o r.referenceImages
InputUploadsSucceeded ==
  /\ baseUpload.state = "ok"
  /\ Len(refUploads) = Len(req.referenceImages)
  /\ \A i \in 1..Len(refUploads) : refUploads[i].state = "ok"

\* C1: a response with isPromptGenerated = false has outputImage null and no
\* output key, and neither the synthesis call nor an upload under 'outputs'
\* was made for the request.
C1_NoSynthesisWithoutPrompt ==
  response.body.isPromptGenerated = Bool(FALSE) =>
    /\ response.body.outputImage = Null
    /\ response.body.outputImageKey = Undef
    /\ SynthesisCalls = {}
    /\ UploadsUnder("outputs") = {}
    /\ \A o \in store : o.key[3] # "outputs"

\* C1 witness: Step 2 ran and the request ended with isPromptGenerated = false
C1_Witness ==
  /\ response.body.isPromptGenerated = Bool(FALSE)
  /\ CallsNamed("applyUserInstructions") # {}
  /\ response.status = 502

\* C2: whenever the pipeline stops after the input uploads succeeded (the vision
\* credential being configured), Stage 3 and output-upload failures included,
\* the response is a 502 shaped like the Pipeline Response with outputImage
\* null and a non-empty error string.
C2_StoppedPipelineAnswers502 ==
  (pc = "done" /\ cfg.openaiApiKey /\ InputUploadsSucceeded /\ response.status # 200) =>
    /\ response.status = 502
    /\ response.body.baseImage.k = "string"
    /\ response.body.referenceImages.k = "array"
    /\ response.body.prompt1 # Undef
    /\ response.body.prompt2 # Undef
    /\ response.body.outputImage = Null
    /\ response.body.error.k = "string"
    /\ response.body.error.s # <<>>

\* C2 witness of the failing case: Stage 3 threw and the handler has answered
C2_Stage3FailureAnswered ==
  /\ pc = "done"
  /\ InputUploadsSucceeded
  /\ genPc = "settled"
  /\ genOutcome.threw

FallbackTried == CallsNamed("fallback.generateImage") # {}

\* C3: a call of generateImage invokes the primary exactly once and the fallback
\* at most once, only after the primary failed with a quota-exhausted error,
\* with the same prompt and the same resolved aspect ratio; the fallback's
\* outcome is then the outcome of the call.
C3_OnePrimaryAtMostOneFallback ==
  genPc # "idle" =>
    /\ Cardinality(CallsNamed("generateContent")) = 1
    /\ Cardinality(CallsNamed("fallback.generateImage")) <= 1
    /\ \A f \in CallsNamed("fallback.generateImage") :
         \A p \in CallsNamed("generateContent") :
           /\ p < f
           /\ genCaught # NoError
           /\ isQuotaExhaustedError(genCaught)
           /\ calls[f].detail.prompt = calls[p].detail.prompt
           /\ calls[p].detail.generationConfig # Undef
           /\ calls[f].detail.options.aspectRatio
                = calls[p].detail.generationConfig.imageConfig.aspectRatio
           /\ calls[f].detail.options.aspectRatio
                = Coalesce(calls[1].detail.options.aspectRatio, cfg.falAspectRatio)
    /\ (FallbackTried /\ genPc = "settled") =>
         genOutcome \in {Returned(FalImage), Threw(FalKeyMissing), Threw(FalRequestFailed),
                         Threw(FalNoImageUrl), Threw(FalDownloadFailed)}

\* C3 witness: quota exhausted on a call with an explicit aspect ratio, the
\* fallback delivered the image
C3_Witness ==
  /\ genPc = "settled"
  /\ FallbackTried
  /\ genOutcome = Returned(FalImage)
  /\ calls[1].detail.options.aspectRatio = Str(<<"16:9">>)

\* C4: when the primary fails with an error that is not classified as
\* quota-exhausted, generateImage rejects with that same error and the fallback
\* is never invoked.
C4_NonQuotaErrorPropagates ==
  (genCaught # NoError /\ ~isQuotaExhaustedError(genCaught)) =>
    /\ genPc = "settled"
    /\ genOutcome = Threw(genCaught)
    /\ ~FallbackTried
    /\ CallsNamed("fal.post") = {}

\* C4 witness: the primary rejected with Error('boom')
C4_Witness ==
  /\ genPc = "settled"
  /\ genCaught = ProviderError(Undef, Undef, Undef, Str(Chars_boom))
  /\ genOutcome.threw

\* the classification as the specification words it: code 8, status
\* RESOURCE_EXHAUSTED, or details + message (uppercased) containing
\* RESOURCE_EXHAUSTED or QUOTA
QuotaAsSpecified(e) ==
  LET text == ToUpperCase(Coalesce(e.details, Str(<<>>)).s \o Coalesce(e.message, Str(<<>>)).s)
  IN \/ e.code = Num(8)
     \/ e.status = Str(RESOURCE_EXHAUSTED_STATUS)
     \/ Includes(text, RESOURCE_EXHAUSTED_STATUS)
     \/ Includes(text, QUOTA)

\* C5 as claimed: the fallback is tried if and only if the error is
\* quota-exhausted in the sense of QuotaAsSpecified.
C5_FallbackIffQuotaAsSpecified ==
  genCaught # NoError => (FallbackTried <=> QuotaAsSpecified(genCaught))

\* the classification with the two differences of the code: a code equal to the
\* string RESOURCE_EXHAUSTED counts, and details and message are joined by a space
QuotaAsAmended(e) ==
  LET text == ToUpperCase(Coalesce(e.details, Str(<<>>)).s \o <<" ">>
                          \o Coalesce(e.message, Str(<<>>)).s)
  IN /\ e.class # "primitive"
     /\ \/ e.code = Num(8)
        \/ e.code = Str(RESOURCE_EXHAUSTED_STATUS)
        \/ e.status = Str(RESOURCE_EXHAUSTED_STATUS)
        \/ Includes(text, RESOURCE_EXHAUSTED_STATUS)
        \/ Includes(text, QUOTA)

\* C5 amended: the fallback is tried if and only if the error is an object whose
\* code is 8 or the string RESOURCE_EXHAUSTED, whose status is
\* RESOURCE_EXHAUSTED, or whose details, a space and message, uppercased,
\* contain RESOURCE_EXHAUSTED or QUOTA.
C5_FallbackIffQuotaAsAmended ==
  genCaught # NoError => (FallbackTried <=> QuotaAsAmended(genCaught))

\* C5 witness: an error classified only by the lower-case text of its details
C5_Witness ==
  /\ genCaught = ProviderError(Undef, Undef, Str(Chars_quota), Str(Chars_boom))
  /\ FallbackTried

\* the userPrompt holds a character that is not whitespace
HasInstructions(r) ==
  /\ r.userPrompt # Undef
  /\ \E i \in 1..Len(r.userPrompt.s) : ~IsWhitespace(r.userPrompt.s[i])

\* C6: once Stage 1 has succeeded, Stage 2 is called if and only if the
\* userPrompt is non-empty after trimming; a whitespace-only userPrompt, like an
\* absent one, leads to no Stage 2 call, prompt1 as the synthesis prompt and
\* step2Executed = false.
C6_Stage2IffInstructions ==
  prompt1 # Undef =>
    /\ (CallsNamed("applyUserInstructions") # {}) <=> HasInstructions(req)
    /\ ~HasInstructions(req) =>
         /\ prompt2 = prompt1
         /\ step2Executed = FALSE
         /\ Cardinality(CallsNamed("generateImage")) = 1
         /\ \A g \in CallsNamed("generateImage") : calls[g].detail.prompt = prompt1.s
         /\ response.status = 200 =>
              /\ response.body.step2Executed = Bool(FALSE)
              /\ response.body.prompt2 = response.body.prompt1

\* C6 witness: a whitespace-only userPrompt served to the 200 response
C6_Witness ==
  /\ req.userPrompt = Str(<<" ", "\t">>)
  /\ response.status = 200

\* C7: a response with step2Executed = false and isPromptGenerated = true has
\* prompt2 = prompt1, and the synthesis client was given that prompt1.
C7_SkippedStage2KeepsPrompt1 ==
  (response.body.step2Executed = Bool(FALSE) /\ response.body.isPromptGenerated = Bool(TRUE)) =>
    /\ response.body.prompt1.k = "string"
    /\ response.body.prompt2 = response.body.prompt1
    /\ CallsNamed("generateImage") # {}
    /\ \A g \in CallsNamed("generateImage") : calls[g].detail.prompt = response.body.prompt1.s
    /\ \A g \in CallsNamed("generateContent") : calls[g].detail.prompt = response.body.prompt1.s

\* C7 witness: a 200 response of a request whose Step 2 was skipped
C7_Witness ==
  /\ response.status = 200
  /\ response.body.step2Executed = Bool(FALSE)
  /\ response.body.isPromptGenerated = Bool(TRUE)

HasUnsupportedMime(r) ==
  \E i \in 1..Len(AllFiles(r)) : AllFiles(r)[i].mimetype \notin SUPPORTED_MIME_TYPES
HasOversizeFile(r) ==
  \E i \in 1..Len(AllFiles(r)) : AllFiles(r)[i].size > 50 * 1024 * 1024
AggregateTooLarge(r) == SumSizes(AllFiles(r)) > 50 * 1024 * 1024
AspectRatioOutsideEnum(r) ==
  r.aspectRatio # Undef /\ r.aspectRatio.s \notin ASPECT_RATIO_OPTIONS

\* the request fails validation: one of the cases C8 lists
RejectedInValidation(r) ==
  \/ r.baseImage = <<>>
  \/ HasUnsupportedMime(r)
  \/ HasOversizeFile(r)
  \/ AggregateTooLarge(r)
  \/ AspectRatioOutsideEnum(r)

\* C8: for a request rejected during validation no blob-store upload and no
\* model call is performed.
C8_NoSideEffectsOnRejection ==
  (pc # "idle" /\ RejectedInValidation(req)) =>
    /\ calls = <<>>
    /\ store = {}
    /\ pc = "done"
    /\ response.status \notin {0, 200, 502}

\* C8 witness: valid files with aspectRatio "auto", rejected by the schema
C8_Witness ==
  /\ pc = "done"
  /\ req.baseImage # <<>>
  /\ ~HasUnsupportedMime(req) /\ ~HasOversizeFile(req) /\ ~AggregateTooLarge(req)
  /\ req.aspectRatio = Str(<<"auto">>)
  /\ response.status = 400

\* C9: a request carrying a file of unsupported MIME type, a file over 50 MB,
\* or more reference files than max_reference_images is answered with 400.
C9_InvalidUploadAnswers400 ==
  (pc = "done" /\ (\/ HasUnsupportedMime(req)
                   \/ HasOversizeFile(req)
                   \/ Len(req.referenceImages) > MaxReferenceImages)) =>
    response.status = 400

\* the handler ran its validators on the request: multer let it through with a base image
ValidatorRan == pc # "idle" /\ MulterParse(req) = NoError /\ req.baseImage # <<>>
\* the validators threw: a 400 with one of their messages, before any upload
ValidatorRejected ==
  /\ response.status = 400
  /\ response.body.message # Str(<<"Invalid payload">>)
  /\ calls = <<>>
AggregateLimitMessage == Str(<<"Total image payload size exceeds 50 MB limit per request.">>)

\* C10: the validator accepts the images if and only if every file is at most
\* 50 MB and base plus references together are at most 50 MB; a base image of
\* exactly 50 MB alone is accepted, and with any reference of nonzero size it is
\* rejected with the aggregate-limit 400.
C10_SizeCeilings ==
  /\ (pc # "idle" /\ req.baseImage # <<>> /\ ~HasUnsupportedMime(req)) =>
       (ValidateRequest(req) \in {NoError, ZodError}
          <=> (~HasOversizeFile(req) /\ ~AggregateTooLarge(req)))
  /\ ValidatorRan =>
    /\ ~ValidatorRejected <=> (~HasOversizeFile(req) /\ ~AggregateTooLarge(req))
    /\ (req.baseImage[1].size = 50 * 1024 * 1024 /\ req.referenceImages = <<>>) =>
         ~ValidatorRejected
    /\ (/\ req.baseImage[1].size = 50 * 1024 * 1024
        /\ \E i \in 1..Len(req.referenceImages) : req.referenceImages[i].size > 0) =>
         /\ ValidatorRejected
         /\ response.body.message = AggregateLimitMessage

\* C10 witness: a base image of exactly 50 MB, alone, is being uploaded
C10_Witness ==
  /\ pc = "uploadBase"
  /\ req.baseImage[1].size = 50 * 1024 * 1024
  /\ req.referenceImages = <<>>
  /\ calls # <<>>

\* the aspect ratio the synthesis client has to use for the request
ExpectedAspectRatio ==
  IF req.aspectRatio = Undef THEN cfg.falAspectRatio ELSE req.aspectRatio

\* C11: the aspect ratio in the primary provider's generation config, and the
\* one given to the fallback provider and posted by it, equals the request's
\* aspectRatio, or the configured default when the request omits it.
C11_AspectRatioRoundTrip ==
  pc # "idle" =>
    /\ \A i \in CallsNamed("generateImage") :
         calls[i].detail.options.aspectRatio = req.aspectRatio
    /\ \A i \in CallsNamed("generateContent") :
         /\ calls[i].detail.generationConfig # Undef
         /\ calls[i].detail.generationConfig.imageConfig.aspectRatio = ExpectedAspectRatio
    /\ \A i \in CallsNamed("fallback.generateImage") :
         calls[i].detail.options.aspectRatio = ExpectedAspectRatio
    /\ \A i \in CallsNamed("fal.post") :
         calls[i].detail.aspect_ratio = ExpectedAspectRatio

\* C11 witness: a request without aspectRatio, under a default of 9:16, reached
\* the fallback provider's POST
C11_Witness ==
  /\ req.aspectRatio = Undef
  /\ cfg.falAspectRatio = Str(<<"9:16">>)
  /\ CallsNamed("generateContent") # {}
  /\ CallsNamed("fal.post") # {}

\* C11 witness: a request carrying 16:9, under a default of 9:16, reached the
\* primary provider
C11_WitnessCarried ==
  /\ req.aspectRatio = Str(<<"16:9">>)
  /\ cfg.falAspectRatio = Str(<<"9:16">>)
  /\ CallsNamed("generateContent") # {}

C12_WitnessText ==
  /\ response.status = 502
  /\ CallsNamed("applyUserInstructions") # {}
  /\ response.body.prompt2 = Str(<<"n", "o">>)

\* the keys of the body sent with the 200 response
SuccessFields ==
  {"baseImage", "baseImageKey", "referenceImages", "referenceImageKeys", "prompt1",
   "prompt2", "outputImage", "outputImageKey", "isPromptGenerated", "step2Executed"}

\* C13: every 502 response has the fields of the 200 response, among them the
\* keys of the uploaded base and reference images and the step2Executed flag,
\* plus error and isPromptGenerated = false.
C13_ShortCircuitHasSuccessFields ==
  response.status = 502 =>
    /\ \A f \in SuccessFields : response.body[f] # Undef
    /\ response.body.baseImageKey = Str(baseUpload.key)
    /\ response.body.referenceImageKeys = KeysOf(refUploads)
    /\ response.body.step2Executed.k = "boolean"
    /\ response.body.error.k = "string"
    /\ response.body.isPromptGenerated = Bool(FALSE)

\* C13 witness of the failing case: a 502 was sent after the input uploads
C13_ShortCircuitSent ==
  /\ response.status = 502
  /\ InputUploadsSucceeded
  /\ response.body.baseImage = Str(baseUpload.url)
  /\ response.body.baseImageKey = Undef

\* the response carries a body of the Pipeline Response shape
IsPipelineResponse == response.body.prompt1 # Undef

\* C14: in every response shaped as a Pipeline Response, a null prompt1 comes
\* with a null prompt2 and a null outputImage.
C14_NullPrompt1NullsTheRest ==
  /\ response.status \in {200, 502} => IsPipelineResponse
  /\ (IsPipelineResponse /\ response.body.prompt1 = Null) =>
       /\ response.body.prompt2 = Null
       /\ response.body.outputImage = Null
       /\ response.body.outputImageKey = Undef

\* C14 witness: a Pipeline Response with prompt1 = null was sent
C14_Witness ==
  /\ response.status = 502
  /\ response.body.prompt1 = Null

\* some upload of an input image has failed
InputUploadFailed ==
  \/ baseUpload.state = "failed"
  \/ \E i \in 1..Len(refUploads) : refUploads[i].state = "failed"

\* C15: the base-image upload completes before any reference upload starts, the
\* reference uploads are started together, no vision/text model call is made
\* until all input uploads have succeeded, and a failed input upload ends the
\* request with an HTTP 5xx and no model call.
C15_InputUploadsBeforeModels ==
  /\ UploadsUnder("inputs") # {} => calls[1].detail.key = baseUpload.key
  /\ Cardinality(UploadsUnder("inputs")) > 1 =>
       /\ baseUpload.state = "ok"
       /\ StoredObject(baseUpload) \in store
       /\ Cardinality(UploadsUnder("inputs")) = 1 + Len(req.referenceImages)
       /\ Len(refUploads) = Len(req.referenceImages)
  /\ ModelCalls # {} => InputUploadsSucceeded
  /\ InputUploadFailed =>
       /\ pc = "done"
       /\ response.status >= 500 /\ response.status <= 599
       /\ ModelCalls = {}

\* C15 witness: two reference uploads are in flight at the same time
C15_Witness ==
  /\ pc = "uploadRefs"
  /\ Len(refUploads) = 2
  /\ \A i \in 1..2 : refUploads[i].state = "pending"

\* C15 witness: a reference upload failed after another had succeeded
C15_WitnessFailure ==
  /\ pc = "done"
  /\ Len(refUploads) = 2
  /\ refUploads[1].state = "ok"
  /\ refUploads[2].state = "failed"

\* C16: a response with a non-null outputImage URL is sent only once the object
\* behind that URL has been written to the blob store under prefix 'outputs'.
C16_OutputImageIsStored ==
  response.body.outputImage.k = "string" =>
    \E o \in store :
      /\ o.key[3] = "outputs"
      /\ PublicUrl(o.key) = response.body.outputImage.s
      /\ response.body.outputImageKey = Str(o.key)
      /\ \E i \in UploadsUnder("outputs") : calls[i].detail.key = o.key

\* C16 witness: a 200 response with an output image URL was sent
C16_Witness ==
  /\ response.status = 200
  /\ response.body.outputImage.k = "string"
  /\ UploadsUnder("outputs") # {}

\* the response names the stored object o by its URL or by its key
ReferencedInResponse(o) ==
  LET b == response.body
      itemsOf(v) == IF v.k = "array" THEN {v.items[i] : i \in 1..Len(v.items)} ELSE {}
  IN \/ b.baseImage = Str(PublicUrl(o.key))
     \/ b.baseImageKey = Str(o.key)
     \/ b.outputImage = Str(PublicUrl(o.key))
     \/ b.outputImageKey = Str(o.key)
     \/ PublicUrl(o.key) \in itemsOf(b.referenceImages)
     \/ o.key \in itemsOf(b.referenceImageKeys)

\* C17: on every terminating path (the vision credential being configured), each
\* object the request wrote to the blob store is referenced, by URL or key, in
\* the response.
C17_StoredObjectsAreReferenced ==
  (pc = "done" /\ cfg.openaiApiKey) => \A o \in store : ReferencedInResponse(o)

\* C17 witness of the failing case: Stage 3 failed after the base image was stored
C17_Stage3FailedAfterUploads ==
  /\ pc = "done"
  /\ genPc = "settled"
  /\ genOutcome.threw
  /\ StoredObject(baseUpload) \in store
  /\ ~ReferencedInResponse(StoredObject(baseUpload))

\* on the paths answered with 200 or 502 the stored objects are referenced
C17_ReferencedWhenPipelineShaped ==
  response.status \in {200, 502} => \A o \in store : ReferencedInResponse(o)

\* C18: across the interleavings of concurrent callers no two uploadBuffer calls
\* get the same key, even for the same MIME type, extension and prefix; each
\* key is <folder>/<prefix>/<id>.<ext> with prefix inputs or outputs and an id
\* no other call has.
C18_KeysNeverCollide ==
  /\ \A i, j \in 1..Len(storageUploads) :
       i # j =>
         /\ storageUploads[i].key # storageUploads[j].key
         /\ storageUploads[i].url # storageUploads[j].url
         /\ storageUploads[i].key[5] # storageUploads[j].key[5]
  /\ \A i \in 1..Len(storageUploads) :
       LET key == storageUploads[i].key
       IN /\ Len(key) >= 7
          /\ SubSeq(key, 1, 2) = <<StorageFolder, "/">>
          /\ key[3] \in {"inputs", "outputs"}
          /\ key[4] = "/"
          /\ key[6] = "."
          /\ storageUploads[i].url = <<StorageOrigin, "/">> \o key
  /\ \A o1, o2 \in store : o1.key = o2.key => o1 = o2
  /\ Cardinality(store)
       = Cardinality({i \in 1..Len(storageUploads) : storageUploads[i].state = "ok"})

\* C18 witness: two calls with the same prefix, MIME type and extension were in
\* flight together, and the later one has returned first
C18_Witness ==
  /\ Len(storageUploads) >= 2
  /\ storageUploads[1].state = "pending"
  /\ storageUploads[2].state = "ok"
  /\ storageUploads[1].contentType = storageUploads[2].contentType
  /\ storageUploads[1].key[3] = storageUploads[2].key[3]
  /\ SubSeq(storageUploads[1].key, 6, Len(storageUploads[1].key))
       = SubSeq(storageUploads[2].key, 6, Len(storageUploads[2].key))

\* the url parameter has a value outside the configured public base URL
UrlOutsideStorage(q) == Truthy(q.url) /\ ~StartsWith(q.url.s, cfg.publicBaseUrl)

\* C19: a proxy request whose url parameter does not start with the configured
\* public base URL is answered 403 and no upstream fetch is made.
C19_ForeignUrlRefused ==
  (proxyPc # "idle" /\ UrlOutsideStorage(proxyReq)) =>
    /\ proxyPc = "done"
    /\ proxyResponse.status = 403
    /\ proxyFetch = <<>>

\* what the handler does ensure: a url outside the configured public base URL is
\* refused with 403, without a fetch, when the request carries no key.
C19_ForeignUrlWithoutKeyRefused ==
  (proxyPc # "idle" /\ UrlOutsideStorage(proxyReq) /\ ~Truthy(proxyReq.key)) =>
    /\ proxyPc = "done"
    /\ proxyResponse.status = 403
    /\ proxyFetch = <<>>

\* C19 witness of the failing case: the request named a url outside the storage,
\* and a foreign URL was fetched and served
C19_ForeignUrlServed ==
  /\ UrlOutsideStorage(proxyReq)
  /\ proxyFetch = ForeignUrl
  /\ proxyResponse.status = 200

\* the proxy refused the request with 400 before fetching anything
ProxyRefused400 ==
  proxyPc = "done" /\ proxyResponse.status = 400 /\ proxyFetch = <<>>

\* C20: the proxy answers 400 unless exactly one of key and url is provided:
\* when neither is given, and when both are given.
C20_ExactlyOneParameter ==
  proxyPc # "idle" =>
    ((Truthy(proxyReq.key) = Truthy(proxyReq.url)) => ProxyRefused400)

\* what the handler does ensure: it answers 400 if and only if neither key nor
\* url is provided; when both are given the key is used and the url ignored.
C20_NoParameterRefused ==
  proxyPc # "idle" =>
    /\ ProxyRefused400 <=> (~Truthy(proxyReq.key) /\ ~Truthy(proxyReq.url))
    /\ (Truthy(proxyReq.key) /\ Truthy(proxyReq.url)) =>
         proxyFetch = NewURL(proxyReq.key.s, cfg.publicBaseUrl)

\* C20 witness of the failing case: key and url were both given and the image
\* was served
C20_BothGivenServed ==
  /\ proxyReq.key = Str(SampleKey)
  /\ proxyReq.url = Str(ForeignUrl)
  /\ proxyResponse.status = 200

\* the keys a client may name
NamedKeys == {k.s : k \in {k \in ProxyKeys : Truthy(k)}}
\* the proxy was called with ?key=K alone
CalledWithKey(K) == proxyPc # "idle" /\ proxyReq = ProxyRequest(Undef, Str(K))
\* the proxy was called with ?url=<public base URL followed by K> alone
CalledWithUrlOfKey(K) ==
  proxyPc # "idle" /\ proxyReq = ProxyRequest(Str(cfg.publicBaseUrl \o K), Undef)
\* on a successful fetch the bytes served are those found at upstream
ServesBytesOf(upstream) ==
  proxyResponse.status = 200 => proxyResponse.body = Str(<<"bytes of ">> \o upstream)

\* C21: for every key K, the proxy called with ?key=K and the proxy called with
\* ?url=<public base URL + K> fetch the same upstream URL, the public URL that
\* upload returns for K, and serve the same bytes.
C21_KeyAndUrlFetchTheSame ==
  \A K \in NamedKeys :
    (CalledWithKey(K) \/ CalledWithUrlOfKey(K)) =>
      /\ proxyFetch = PublicUrl(K)
      /\ ServesBytesOf(PublicUrl(K))

\* C21 as amended: the same, for every key K that upload returns (a path
\* relative to the storage) and a configured public base URL that ends in "/".
C21_StoredKeyAndUrlFetchTheSame ==
  \A K \in NamedKeys :
    (/\ K[1] \notin AbsolutePrefixes
     /\ cfg.publicBaseUrl[Len(cfg.publicBaseUrl)] = "/"
     /\ CalledWithKey(K) \/ CalledWithUrlOfKey(K)) =>
      /\ proxyFetch = PublicUrl(K)
      /\ ServesBytesOf(PublicUrl(K))

\* C21 witness: the proxy called with the public URL of a stored key has served it
C21_Witness ==
  /\ CalledWithUrlOfKey(SampleKey)
  /\ cfg.publicBaseUrl = PublicBaseUrl
  /\ proxyResponse.status = 200

\* C21 witness: the proxy called with a stored key has served it
C21_WitnessKey ==
  /\ CalledWithKey(SampleKey)
  /\ cfg.publicBaseUrl = PublicBaseUrl
  /\ proxyResponse.status = 200

\* C22: when the primary fails with a quota-exhausted error and no fallback API
\* key is configured, generateImage fails with the fallback-unavailable
\* configuration error, no HTTP request goes to the fallback endpoint and no
\* image is returned.
C22_NoKeyNoFallbackRequest ==
  (genCaught # NoError /\ isQuotaExhaustedError(genCaught) /\ ~cfg.falApiKey) =>
    /\ genPc = "settled"
    /\ genOutcome = Threw(FalKeyMissing)
    /\ CallsNamed("fal.post") = {}
    /\ CallsNamed("fal.download") = {}

\* C22 witness: quota exhausted (code 8) without a fallback key, the call has
\* settled after entering the fallback service
C22_Witness ==
  /\ genPc = "settled"
  /\ ~cfg.falApiKey
  /\ genCaught # NoError
  /\ genCaught.code = Num(RESOURCE_EXHAUSTED_CODE)
  /\ FallbackTried
  /\ genOutcome.threw

\* C23: no request reaches the input-upload step while the vision model
\* credential is missing.
C23_NoUploadWithoutVisionCredential ==
  ~cfg.openaiApiKey => CallsNamed("uploadBuffer") = {}

\* C23 witness of the failing case: without the vision model credential the
\* request stored its base image and was then answered 500
C23_UploadedWithoutVisionCredential ==
  /\ ~cfg.openaiApiKey
  /\ pc = "done"
  /\ response.status = 500
  /\ StoredObject(baseUpload) \in store
  /\ ModelCalls = {}

\* a provider refused the request: the primary rejected with an error that is
\* not a quota error, or the fallback endpoint answered with a failure status
ProviderRejected ==
  /\ genPc = "settled"
  /\ \/ genOutcome = Threw(FalRequestFailed)
     \/ /\ genCaught \notin {NoError, NoInlineData}
        /\ ~isQuotaExhaustedError(genCaught)
        /\ genOutcome = Threw(genCaught)
\* the requests sent to a provider with aspect ratio 1:1
SquareAttempts ==
  {i \in CallsNamed("generateContent") :
     /\ calls[i].detail.generationConfig # Undef
     /\ calls[i].detail.generationConfig.imageConfig.aspectRatio = Str(<<"1:1">>)}
  \cup {i \in CallsNamed("fal.post") : calls[i].detail.aspect_ratio = Str(<<"1:1">>)}

\* C24: when a provider rejects a request whose aspect ratio is not 1:1, the
\* synthesis is attempted again with aspect ratio 1:1 instead of failing.
C24_RejectedRatioRetriedSquare ==
  (ProviderRejected /\ genArgs.options.aspectRatio # Str(<<"1:1">>)) =>
    SquareAttempts # {}

\* C24 witness of the failing case: the fallback endpoint refused a 16:9 request
\* and generateImage failed after that single request
C24_RejectionFailsTheCall ==
  /\ genPc = "settled"
  /\ genOutcome = Threw(FalRequestFailed)
  /\ genArgs.options.aspectRatio = Str(<<"16:9">>)
  /\ Cardinality(CallsNamed("fal.post")) = 1
  /\ Cardinality(CallsNamed("generateContent")) = 1
  /\ SquareAttempts = {}

\* ------------------------------------------------------------------------
\* OpenAIService on its own: the two prompt stages over sampled replies
\* ------------------------------------------------------------------------
RefusalPhrases ==
  {Chars_im_sorry, Chars_i_cant_assist, Chars_cant_help, Chars_cannot, Chars_unable_to}
\* reply texts: a prompt, and each refusal phrase in lower and upper case, alone
\* or inside a sentence
ReplyTexts ==
  {Text_A_dog}
  \cup {pre \o phrase \o post :
          phrase \in RefusalPhrases \cup {ToUpperCase(ph) : ph \in RefusalPhrases},
          pre \in {<<>>, <<"A", " ">>}, post \in {<<>>, <<".">>}}
\* Stage 1 replies: a transport error, no content, plain text
VisionReplies == {ReplyError, ReplyText(<<>>)} \cup {ReplyText(t) : t \in ReplyTexts}
\* Stage 2 replies: also text in braces that JSON.parse rejects, and objects of
\* the expected shape
EditorReplies ==
  VisionReplies
  \cup {ReplyJson(<<"{">> \o t \o <<"}">>, ParseFailure) : t \in ReplyTexts}
  \cup {ReplyJson(<<"{">> \o t \o <<"}">>, ParsedObject(Str(t), Bool(b))) :
          t \in ReplyTexts, b \in BOOLEAN}

\* openaiService.reconstructPromptFromImage(...) settles
ReconstructPromptFromImageCalled(reply) ==
  /\ aiCall' = [method |-> "reconstructPromptFromImage", reply |-> reply,
                outcome |-> reconstructPromptFromImage(reply)]
  /\ UNCHANGED <<cfg, req, pc, response, calls, store, nextId, handlerLocals, genVars,
                 storageUploads, proxyVars, clientVars, frontendVars>>

\* openaiService.applyUserInstructions(...) settles
ApplyUserInstructionsCalled(reply) ==
  /\ aiCall' = [method |-> "applyUserInstructions", reply |-> reply,
                outcome |-> applyUserInstructions(reply)]
  /\ UNCHANGED <<cfg, req, pc, response, calls, store, nextId, handlerLocals, genVars,
                 storageUploads, proxyVars, clientVars, frontendVars>>

NextOpenAI ==
  \/ \E reply \in VisionReplies : ReconstructPromptFromImageCalled(reply)
  \/ \E reply \in EditorReplies : ApplyUserInstructionsCalled(reply)

\* the service exists only when its constructor found the API key
InitOpenAI == \E c \in Configs : c.openaiApiKey /\ c.publicBaseUrl = PublicBaseUrl /\ InitUnder(c)
SpecOpenAI == InitOpenAI /\ [][NextOpenAI]_vars

\* the reply has content that is not the expected JSON object: no JSON block, or
\* a block that fails to parse
Unparseable(reply) ==
  /\ reply.k = "content"
  /\ reply.content # <<>>
  /\ ~HasJsonBlock(reply.content) \/ reply.parsed = ParseFailure
\* Stage 1's refusal heuristic as specified
RefusalAsSpecified(text) == \E phrase \in RefusalPhrases : Includes(ToLowerCase(text), phrase)

\* C25: when the Stage-2 reply cannot be parsed as the expected JSON object,
\* applyUserInstructions decides isPromptGenerated as Stage 1's refusal heuristic
\* would on the same text: false iff the lowercased reply contains "i'm sorry",
\* "i can't assist", "can't help", "cannot" or "unable to".
C25_UnparseableDecidedAsStage1 ==
  (aiCall.method = "applyUserInstructions" /\ Unparseable(aiCall.reply)) =>
    /\ ~aiCall.outcome.threw
    /\ aiCall.outcome.value.isPromptGenerated = ~RefusalAsSpecified(aiCall.reply.content)
    /\ aiCall.outcome.value.isPromptGenerated
         = reconstructPromptFromImage(ReplyText(aiCall.reply.content)).value.isPromptGenerated

\* C25 witness of the failing case: a block that fails to parse and says
\* "can't help" is taken as a generated prompt
C25_CantHelpTakenAsPrompt ==
  /\ aiCall.method = "applyUserInstructions"
  /\ aiCall.reply = ReplyJson(<<"{">> \o Chars_cant_help \o <<"}">>, ParseFailure)
  /\ aiCall.outcome.value = PromptGenerationResponse(<<"{">> \o Chars_cant_help \o <<"}">>, TRUE)

\* what the code does decide on an unparseable reply: without a JSON block the
\* prompt counts as not generated; with a block that fails to parse it counts as
\* generated unless the reply holds one of the four phrases of chatCompletionsJSON
C25_UnparseableAsCoded ==
  (aiCall.method = "applyUserInstructions" /\ Unparseable(aiCall.reply)) =>
    aiCall.outcome.value.isPromptGenerated
      = (/\ HasJsonBlock(aiCall.reply.content)
         /\ ~ \E phrase \in RefusalPhrases \ {Chars_cant_help} :
                Includes(ToLowerCase(aiCall.reply.content), phrase))

\* ------------------------------------------------------------------------
\* POST /api/image-flow with a client that may go away
\* ------------------------------------------------------------------------
\* the connection of the request closes while the handler is suspended: the
\* client left, or the frontend route's AbortController fired after 300000 ms.
\* The handler registers no listener for it and passes no signal on.
ClientDisconnects ==
  /\ pc \notin {"idle", "done"}
  /\ abortedAt = -1
  /\ abortedAt' = Len(calls)
  /\ UNCHANGED <<cfg, req, pc, response, calls, store, nextId, handlerLocals, genVars,
                 storageUploads, proxyVars, openaiVars, frontendVars>>

NextAbort ==
  \/ Next
  \/ ClientDisconnects

\* every credential is configured
InitAbort ==
  \E c \in Configs :
    /\ c.openaiApiKey /\ c.falApiKey
    /\ c.falAspectRatio = ensureValidAspectRatio(Undef)
    /\ c.publicBaseUrl = PublicBaseUrl
    /\ InitUnder(c)
SpecAbort == InitAbort /\ [][NextAbort]_vars

\* C26: once the client of a request has disconnected (or the frontend's
\* 5-minute deadline has fired), no further upload, model call or synthesis call
\* is started for that request.
C26_NoCallAfterDisconnect ==
  abortedAt # -1 => Len(calls) = abortedAt

\* C26 witness of the failing case: the client left during the base image
\* upload, and the pipeline still ran to the 200 response
C26_PipelineRanAfterDisconnect ==
  /\ abortedAt = 1
  /\ pc = "done"
  /\ response.status = 200
  /\ CallsNamed("reconstructPromptFromImage") # {}
  /\ SynthesisCalls # {}
  /\ Cardinality(CallsNamed("uploadBuffer")) >= 2

\* the URL lies inside the configured storage: its origin is the origin of
\* config.storage.publicBaseUrl and its path follows
InsideStorage(url) ==
  /\ Len(url) >= 2
  /\ url[1] = cfg.publicBaseUrl[1]
  /\ url[2] = "/"

\* C27: for every value of key and url, every upstream fetch of the proxy goes to
\* a URL inside the configured storage public base URL; a key that is an
\* absolute URL of another origin never causes a fetch to that origin.
C27_FetchesStayInsideStorage ==
  proxyFetch # <<>> => InsideStorage(proxyFetch)

\* C27 witness of the failing case: a key that is an absolute URL of another
\* origin, given alone, was fetched from that origin and served
C27_ForeignKeyFetched ==
  /\ proxyReq = ProxyRequest(Undef, Str(ForeignUrl))
  /\ proxyFetch[1] = ForeignOrigin
  /\ proxyResponse.status = 200
  /\ proxyResponse.body = Str(<<"bytes of ">> \o ForeignUrl)

\* C28: a POST /api/image-flow request is answered exactly once on every path:
\* the response is sent when the handler ends and is never sent again, and once
\* it is sent no further upload, model call or synthesis call is made.
C28_OneResponseThenNoCall ==
  /\ [](pc = "done" <=> response # NoResponse)
  /\ [][response # NoResponse => (response' = response /\ calls' = calls)]_vars

\* C28 witness: a failed reference upload was answered 500 while another
\* reference upload of the request is still in flight
C28_Witness ==
  /\ pc = "done"
  /\ response.status = 500
  /\ \E i \in 1..Len(refUploads) : refUploads[i].state = "failed"
  /\ \E i \in 1..Len(refUploads) : refUploads[i].state = "pending"

\* a request that is not yet answered always has a step left to take: no path of
\* the handler ends without a response
C28_UnansweredCanProceed ==
  pc \notin {"idle", "done"} => ENABLED <<Next>>_vars

\* ------------------------------------------------------------------------
\* useImageFlow (frontend hook)
\* ------------------------------------------------------------------------
MaxRuns == 3

\* what the fetch of /api/image-flow settles with: a 2xx response with a JSON
\* body, a 2xx response whose body is not JSON, a response that is not ok with
\* or without text, a rejected fetch
FlowSettlements == {"ok", "okNotJson", "notOk", "notOkEmpty", "networkError"}
Is2xx(settlement) == settlement \in {"ok", "okNotJson"}

\* a runFlow call: where it is, what its fetch settled with, and how often it
\* invoked options.onSuccess
RunOf(state, settlement, onSuccess) ==
  [state |-> state, settlement |-> settlement, onSuccess |-> onSuccess]
\* the data of the response of call i
ResultOf(i) == [k |-> "object", run |-> i]

\* the message set by the catch block of runFlow
CaughtMessage(settlement) ==
  CASE settlement = "notOk" -> Str(<<"text of the response body">>)
    [] settlement = "notOkEmpty" -> Str(<<"Image flow failed">>)
    [] settlement = "okNotJson" -> Str(<<"Unexpected token < in JSON at position 0">>)
    [] OTHER -> Str(<<"Failed to fetch">>)

\* runFlow(payload) up to its await of fetch; options.onSuccess is given
RunFlow ==
  /\ Len(runs) < MaxRuns
  /\ isLoading' = TRUE
  /\ flowError' = Null
  /\ flowResult' = Null
  /\ progressLabel' = Str(<<"Orchestrating prompt pipeline">>)
  /\ runs' = Append(runs, RunOf("fetching", "none", 0))
  /\ UNCHANGED <<cfg, req, pc, response, calls, store, nextId, handlerLocals, genVars,
                 storageUploads, proxyVars, openaiVars, clientVars, historyVars>>

\* the fetch of call i settles and runFlow runs to its end: try, catch, finally
FetchSettles(i, settlement) ==
  /\ i \in 1..Len(runs)
  /\ runs[i].state = "fetching"
  /\ IF settlement = "ok"
     THEN /\ flowResult' = ResultOf(i)
          /\ progressLabel' = Str(<<"Complete">>)
          /\ flowError' = flowError
          /\ runs' = [runs EXCEPT ![i] = RunOf("settled", settlement, runs[i].onSuccess + 1)]
     ELSE /\ flowError' = CaughtMessage(settlement)
          /\ UNCHANGED <<flowResult, progressLabel>>
          /\ runs' = [runs EXCEPT ![i] = RunOf("settled", settlement, runs[i].onSuccess)]
  /\ isLoading' = FALSE
  /\ UNCHANGED <<cfg, req, pc, response, calls, store, nextId, handlerLocals, genVars,
                 storageUploads, proxyVars, openaiVars, clientVars, historyVars>>

NextHook ==
  \/ RunFlow
  \/ \E i \in 1..MaxRuns, settlement \in FlowSettlements : FetchSettles(i, settlement)

SpecHook == Init /\ [][NextHook]_vars

\* the runFlow calls still in flight
InFlight == {i \in 1..Len(runs) : runs[i].state = "fetching"}

\* C29: isLoading is true whenever at least one runFlow call is in flight, also
\* when calls overlap, and false only when none is; onSuccess is invoked exactly
\* once per call that received a 2xx response with its data, and never for a
\* call that received another response or threw.
C29_LoadingWhileInFlight ==
  /\ isLoading <=> InFlight # {}
  /\ \A i \in 1..Len(runs) :
       runs[i].onSuccess = IF runs[i].settlement = "ok" THEN 1 ELSE 0

\* C29 witness of the failing case: of two overlapping calls the first has
\* settled, the second is in flight, and isLoading is false
C29_NotLoadingWhileInFlight ==
  /\ Len(runs) = 2
  /\ runs[1].state = "settled"
  /\ runs[2].state = "fetching"
  /\ ~isLoading

\* while calls do not overlap isLoading tells whether a call is in flight, and
\* in every case onSuccess is invoked once for a call whose 2xx response
\* carried its data and never otherwise
C29_HoldsWithoutOverlap ==
  /\ Cardinality(InFlight) + Cardinality({i \in 1..Len(runs) : runs[i].state = "settled"}) <= 1
       => (isLoading <=> InFlight # {})
  /\ \A i \in 1..Len(runs) :
       runs[i].onSuccess = IF runs[i].settlement = "ok" THEN 1 ELSE 0

\* ------------------------------------------------------------------------
\* useImageHistory (frontend hook)
\* ------------------------------------------------------------------------
\* calls of addToHistory, removeFromHistory and clearHistory in one run
MaxHistoryCalls == 3

\* a history item is known by its timestamp, which grows from call to call
\* n items, newest first
StoredItems(n) == [i \in 1..n |-> n - i + 1]
\* JSON.stringify(limited) as the value of the localStorage entry
Stored(items) == [k |-> "json", items |-> items]
\* what localStorage may hold when the page is opened: no entry, or what earlier
\* sessions of this hook wrote
StoredAtMount ==
  {Null, Stored(<<>>), Stored(StoredItems(MAX_HISTORY_ITEMS - 1)),
   Stored(StoredItems(MAX_HISTORY_ITEMS))}

\* newHistory.slice(0, MAX_HISTORY_ITEMS)
Limited(newHistory) ==
  SubSeq(newHistory, 1, IF Len(newHistory) < MAX_HISTORY_ITEMS THEN Len(newHistory)
                        ELSE MAX_HISTORY_ITEMS)
\* prev.filter((item) => item.id !== id)
WithoutItem(prev, id) == SelectSeq(prev, LAMBDA item : item # id)

\* setHistory((prev) => { saveHistory(updated); return updated; }) until React
\* has applied every queued update. saveHistory writes the entry and queues
\* setHistory(limited), unless localStorage.setItem throws. React applies the
\* value the updater returned last when it ran the updater at the call (no other
\* update of the component pending), and before the queued setHistory(limited)
\* when it ran the updater while rendering.
SetHistoryAndSave(updated, setItemOk, atCall) ==
  /\ persisted' = IF setItemOk THEN Stored(Limited(updated)) ELSE persisted
  /\ history' = IF setItemOk /\ ~atCall THEN Limited(updated) ELSE updated

\* addToHistory(result, userPrompt, aspectRatio)
AddToHistory(setItemOk, atCall) ==
  /\ nextItemId <= MAX_HISTORY_ITEMS + MaxHistoryCalls
  /\ nextItemId' = nextItemId + 1
  /\ SetHistoryAndSave(<<nextItemId>> \o history, setItemOk, atCall)
  /\ UNCHANGED <<cfg, req, pc, response, calls, store, nextId, handlerLocals, genVars,
                 storageUploads, proxyVars, openaiVars, clientVars, hookVars>>

\* removeFromHistory(id)
RemoveFromHistory(id, setItemOk, atCall) ==
  /\ nextItemId <= MAX_HISTORY_ITEMS + MaxHistoryCalls
  /\ nextItemId' = nextItemId + 1
  /\ history # <<>>
  /\ SetHistoryAndSave(WithoutItem(history, id), setItemOk, atCall)
  /\ UNCHANGED <<cfg, req, pc, response, calls, store, nextId, handlerLocals, genVars,
                 storageUploads, proxyVars, openaiVars, clientVars, hookVars>>

\* clearHistory()
ClearHistory ==
  /\ nextItemId <= MAX_HISTORY_ITEMS + MaxHistoryCalls
  /\ nextItemId' = nextItemId + 1
  /\ persisted' = Null
  /\ history' = <<>>
  /\ UNCHANGED <<cfg, req, pc, response, calls, store, nextId, handlerLocals, genVars,
                 storageUploads, proxyVars, openaiVars, clientVars, hookVars>>

\* the page is opened again: useState([]) and the mount effect
MountHistory ==
  /\ history # LoadHistory(persisted)
  /\ history' = LoadHistory(persisted)
  /\ UNCHANGED <<cfg, req, pc, response, calls, store, nextId, handlerLocals, genVars,
                 storageUploads, proxyVars, openaiVars, clientVars, hookVars, persisted,
                 nextItemId>>

\* the ids a caller may remove: the newest, the oldest, one that is not there
RemovableIds == {0} \cup (IF history = <<>> THEN {} ELSE {history[1], history[Len(history)]})

NextHistory ==
  \/ \E setItemOk \in BOOLEAN, atCall \in BOOLEAN : AddToHistory(setItemOk, atCall)
  \/ \E id \in RemovableIds, setItemOk \in BOOLEAN, atCall \in BOOLEAN :
       RemoveFromHistory(id, setItemOk, atCall)
  \/ ClearHistory
  \/ MountHistory

InitHistoryHook ==
  \E c \in Configs, stored \in StoredAtMount :
    /\ c.openaiApiKey /\ c.falApiKey
    /\ c.falAspectRatio = ensureValidAspectRatio(Undef)
    /\ c.publicBaseUrl = PublicBaseUrl
    /\ InitBackend(c) /\ InitHook /\ InitHistory(stored)
SpecHistory == InitHistoryHook /\ [][NextHistory]_vars

NewestFirst(items) == \A i, j \in 1..Len(items) : i < j => items[i] > items[j]

\* C30: after any sequence of addToHistory, removeFromHistory and clearHistory
\* calls the history persisted under 'image-flow-history' holds at most 50
\* items, newest first, and the settled in-memory history equals the persisted
\* list.
C30_PersistedCappedAndInMemoryEqual ==
  /\ Len(LoadHistory(persisted)) <= MAX_HISTORY_ITEMS
  /\ NewestFirst(LoadHistory(persisted))
  /\ history = LoadHistory(persisted)

\* C30 witness of the failing case: an item added is in the in-memory
\* history and not in the persisted list
C30_AddedItemNotPersisted ==
  /\ history # <<>>
  /\ history[1] > MAX_HISTORY_ITEMS
  /\ \A i \in 1..Len(LoadHistory(persisted)) : LoadHistory(persisted)[i] # history[1]

\* C30 witness of the failing case: the in-memory history holds 51 items, the
\* persisted list its first 50
C30_InMemoryBeyondCap ==
  /\ Len(history) = MAX_HISTORY_ITEMS + 1
  /\ persisted = Stored(Limited(history))

\* the persisted list by itself is always capped and newest first, each added
\* item in front of it when the write succeeded
C30_PersistedCappedNewestFirst ==
  /\ Len(LoadHistory(persisted)) <= MAX_HISTORY_ITEMS
  /\ NewestFirst(LoadHistory(persisted))
  /\ NewestFirst(history)

====
